---- MODULE Spec2Model ----
(***************************************************************************)
(* Model of the MCP protocol bridge of hb-chen/opskills:                   *)
(*   internal/skill/mcp/protocol.go  the JSON-RPC envelope and its codec   *)
(*   internal/skill/mcp/client.go    Client (request correlator) and       *)
(*                                   ExternalServerManager                 *)
(*   internal/skill/mcp/server.go    Connection (process transport)        *)
(*   internal/skill/router.go        Router (forwarded execution, cache)   *)
(*                                                                         *)
(* Go values that travel through interface{} carry their dynamic type, so  *)
(* identifiers are modelled as typed values [t, v]; encoding/json writes   *)
(* every number as a JSON number and reads every JSON number read into an  *)
(* interface{} back as a float64.                                          *)
(***************************************************************************)
EXTENDS Integers, Sequences, FiniteSets, TLC

\* ------------------------------------------------------------------ bounds
\* concurrent goroutines that call into the bridge, each once (goroutine 0 is the one
\* that holds a Connection and stops it)
NumCallers == 2
\* the goroutine that constructs a Connection and later stops it
Owner == 0
Callers == 1..NumCallers
Procs == 0..NumCallers
\* each goroutine makes at most one Connection
Conns == 1..NumCallers

\* ------------------------------------------------------------ wire codec
\* Go values held in an interface{} identifier
NilID == [t |-> "nil", v |-> 0]
Int64(n) == [t |-> "int64", v |-> n]
Float64(n) == [t |-> "float64", v |-> n]
String(n) == [t |-> "string", v |-> n]

\* JSON tokens
JNull == [j |-> "null", v |-> 0]
JNum(n) == [j |-> "num", v |-> n]
JStr(n) == [j |-> "str", v |-> n]

\* json.Marshal of an interface{} identifier: every Go number becomes a JSON number
EncodeID(id) ==
    CASE id.t = "nil" -> JNull
      [] id.t = "int64" -> JNum(id.v)
      [] id.t = "float64" -> JNum(id.v)
      [] id.t = "string" -> JStr(id.v)

\* json.Unmarshal into an interface{} identifier: a JSON number becomes a float64
DecodeID(js) ==
    CASE js.j = "null" -> NilID
      [] js.j = "num" -> Float64(js.v)
      [] js.j = "str" -> String(js.v)

\* JSONRPCRequest: params is a json.RawMessage with omitempty ("none" is the nil slice)
EncodeRequest(req) ==
    [kind |-> "request", jid |-> EncodeID(req.id), method |-> req.method, params |-> req.params]

DecodeRequest(js) ==
    [id |-> DecodeID(js.jid), method |-> js.method, params |-> js.params]

\* JSONRPCResponse: result is a RawMessage with omitempty, error a pointer with omitempty
EncodeResponse(resp) ==
    [kind |-> "response", jid |-> EncodeID(resp.id), result |-> resp.result, error |-> resp.error]

DecodeResponse(js) ==
    [id |-> DecodeID(js.jid), result |-> js.result, error |-> js.error]

\* NewJSONRPCRequest(id, method, params)
NewJSONRPCRequest(id, method, params) ==
    [id |-> id, method |-> method, params |-> params]

NoError == [code |-> 0, message |-> "none"]


\* ------------------------------------------------------------------ state
VARIABLES
    \* Connection (server.go:170-180), one entry per Connection
    proc,        \* Command.Process: "none", "running", "exited", "reaped", "killed"
    ctxDone,     \* c.ctx has been cancelled
    stdinOpen,   \* the parent's end of the child's stdin pipe is open
    stdoutOpen,  \* the parent's end of the child's stdout pipe is open
    loop,        \* the goroutine running Client.Start: "idle", "select", "decode", "ret_ctx", "ret_eof", "ret_err"
    \* Client (client.go:12-21)
    nextID,      \* c.nextID
    requests,    \* c.requests: identifier -> the goroutine that owns the response channel
    \* the child process and its pipes
    wire,        \* what has been written to the child's stdin, in write order
    out,         \* what the child has written to its stdout and the read loop has not read
    answered,    \* positions of wire the child has answered, and 0 once it has written a malformed message
    \* goroutines
    pc,          \* position of each goroutine
    ret,         \* where the operation the goroutine is inside returns to
    tconn,       \* the Connection the goroutine works on
    tsrv,        \* the external server name the goroutine asked for
    tid,         \* Call's local id
    ctxC,        \* the caller's own context is done
    chan,        \* Call's respChan (capacity 1)
    terr,        \* the error the last operation returned
    sret,        \* the error the last Connection.Stop returned
    \* Router (router.go:11-16) and ExternalServerManager (client.go:197-201)
    mcpClients,  \* Router.mcpClients
    connections, \* ExternalServerManager.connections
    clients,     \* ExternalServerManager.clients
    mu,          \* ExternalServerManager.mu: 0, or the goroutine holding it
    nconn,       \* Connections created so far
    \* observations
    outcome,     \* what the caller of the current Call has observed, in order
    kills,       \* per Connection: kill signals delivered to a live process
    stopped,     \* per Connection: calls of Stop that have returned
    codec,       \* an envelope on its way through encode and decode
    \* Router.Execute (router.go:29-55)
    tskill,      \* the skill name the goroutine's Execute was called with
    direct,      \* per goroutine: calls of the Direct Executor its Execute has made
    \* DirectExecutor (direct/executor.go) and the skill server's tools/call handler
    run,         \* one tools/call through handleToolsCall, DirectExecutor.Execute and ScriptRunner.Run
    conv,        \* a value on its way through a conversion of the adapter or the URI parser
    \* Server (server.go:12-18) and its Serve loop
    srv,         \* one call of Server.Serve: its streams, its position and what it has written
    \* Registry (registry.go)
    reg          \* a Registry, the goroutines inside its operations and what they were returned

connVars == <<proc, ctxDone, stdinOpen, stdoutOpen, loop, kills, stopped>>
clientVars == <<nextID, requests>>
pipeVars == <<wire, out, answered>>
threadVars == <<pc, ret, tconn, tsrv, tid, ctxC, chan, terr, sret, outcome>>
routerVars == <<mcpClients, connections, clients, mu, nconn>>
execVars == <<tskill, direct, run, conv, srv, reg>>
vars == <<connVars, clientVars, pipeVars, threadVars, routerVars, codec, execVars>>

ServerNames == {"s1", "nosuch"}
\* Config.MCPServers: the configured external servers, all of type stdio
MCPServers == {"s1"}
\* a skill configuration without mcp_server
NoServer == ""
\* the skills the Registry holds, and one it does not
Registered == {"fwd", "fwd_bad", "auto", "dir", "plain"}
SkillNames == Registered \cup {"ghost"}
\* Config.Skills: "plain" has no entry
SkillConfigs ==
    [k \in {"fwd", "fwd_bad", "auto", "dir"} |->
        CASE k = "fwd" -> [mode |-> "mcp", server |-> "s1"]
          [] k = "fwd_bad" -> [mode |-> "mcp", server |-> "nosuch"]
          [] k = "auto" -> [mode |-> "auto", server |-> "s1"]
          [] k = "dir" -> [mode |-> "direct", server |-> NoServer]]
EmptyMap == [x \in {} |-> 0]
\* no tool call is being handled, no value is being converted
NoRun == [pc |-> "none"]
NoConv ==
    [stage |-> "none", kind |-> "none", arguments |-> EmptyMap, params |-> EmptyMap,
     uri |-> <<>>, skillName |-> <<>>, resourcePath |-> <<>>, err |-> "nil",
     skills |-> <<>>, resources |-> <<>>,
     result |-> [Success |-> FALSE, Output |-> "", Error |-> <<>>, ExitCode |-> 0],
     tool |-> [Content |-> <<>>, IsError |-> FALSE],
     back |-> [Success |-> FALSE, Output |-> <<>>, Error |-> <<>>]]
\* no Server is serving
NoSrv == [pc |-> "none"]

\* no Registry in the scenario
NoReg == [skills |-> <<>>]
\* no envelope is on its way
NoCodec == [stage |-> "none", kind |-> "none", orig |-> 0, bytes |-> 0, back |-> 0]
\* the two goroutines of the scenarios that stop Connections and that route calls
Pair == {1, 2}

InitCommon ==
    /\ ctxDone = [c \in Conns |-> FALSE]
    /\ stdinOpen = [c \in Conns |-> TRUE]
    /\ stdoutOpen = [c \in Conns |-> TRUE]
    /\ nextID = [c \in Conns |-> 1]
    /\ requests = [c \in Conns |-> EmptyMap]
    /\ wire = [c \in Conns |-> <<>>]
    /\ out = [c \in Conns |-> <<>>]
    /\ answered = [c \in Conns |-> {}]
    /\ kills = [c \in Conns |-> 0]
    /\ stopped = [c \in Conns |-> 0]
    /\ tconn = [t \in Procs |-> 1]
    /\ tsrv = [t \in Procs |-> "s1"]
    /\ tid = [t \in Procs |-> NilID]
    /\ ctxC = [t \in Procs |-> FALSE]
    /\ chan = [t \in Procs |-> <<>>]
    /\ terr = [t \in Procs |-> "none"]
    /\ sret = [t \in Procs |-> "none"]
    /\ outcome = [t \in Procs |-> <<>>]
    /\ mcpClients = EmptyMap
    /\ connections = EmptyMap
    /\ clients = EmptyMap
    /\ mu = 0
    /\ tskill = [t \in Procs |-> "none"]
    /\ direct = [t \in Procs |-> 0]

\* A Connection that NewStdioConnection made (server.go:183-209) and Start has started:
\* the child runs, the read loop is at the top of its first round, and the callers of
\* its Client are not yet calling.
Init ==
    /\ InitCommon
    /\ codec = NoCodec
    /\ run = NoRun
    /\ conv = NoConv
    /\ srv = NoSrv
    /\ reg = NoReg
    /\ proc = [c \in Conns |-> IF c = 1 THEN "running" ELSE "none"]
    /\ loop = [c \in Conns |-> IF c = 1 THEN "select" ELSE "idle"]
    /\ nconn = 1
    /\ pc = [t \in Procs |-> IF t = Owner THEN "own_started" ELSE "idle"]
    /\ ret = [t \in Procs |-> IF t = Owner THEN "own_started" ELSE "caller_ret"]

\* A Connection that NewStdioConnection made, its owner about to call Start and later
\* Stop, and two callers of its Client.
InitStop ==
    /\ InitCommon
    /\ codec = NoCodec
    /\ run = NoRun
    /\ conv = NoConv
    /\ srv = NoSrv
    /\ reg = NoReg
    /\ proc = [c \in Conns |-> "none"]
    /\ loop = [c \in Conns |-> "idle"]
    /\ nconn = 1
    /\ pc = [t \in Procs |-> IF t = Owner THEN "conn_start" ELSE IF t \in Pair THEN "idle" ELSE "off"]
    /\ ret = [t \in Procs |-> IF t = Owner THEN "own_started" ELSE "caller_ret"]

\* ------------------------------------------------------------- helpers
\* delete(c.requests, id)
DeletePendingNoop(reqs, id) == reqs

DeletePending(reqs, id) == [k \in DOMAIN reqs \ {id} |-> reqs[k]]

\* c.requests[id] = respChan
PutPending(reqs, id, t) == [k \in DOMAIN reqs \cup {id} |-> IF k = id THEN t ELSE reqs[k]]

\* a write to the child's stdin fails once the pipe is closed or the child is gone
WriteFails(c) == ~stdinOpen[c] \/ proc[c] \in {"exited", "reaped", "killed"}

\* the context a Call waits on: the caller's own (Client.Call called directly), the
\* Connection's (Connection.Initialize, server.go:248-250), or context.Background()
\* (Router.executeMCP, router.go:106)
CtxIsDone(t) ==
    CASE ret[t] = "caller_ret" -> ctxC[t]
      [] ret[t] \in {"r_init", "m_init"} -> ctxDone[tconn[t]]
      [] OTHER -> FALSE

\* the method of the Call the goroutine is inside
MethodOf(t) == IF ret[t] \in {"r_init", "m_init"} THEN "initialize" ELSE "tools/call"

CallPCs == {"call_reg", "call_send", "call_wait"}

\* os.Process.Kill followed by exec.Cmd.Wait
ProcessKill(p) ==
    CASE p = "running" -> "killed"
      [] p = "exited" -> "reaped"
      [] OTHER -> p

\* the error of os.Process.Kill: os.ErrProcessDone once the process has been waited for
KillErr(p) == IF p \in {"running", "exited"} THEN "nil" ELSE "process_done"

\* Connection.Stop's return value: the errors of Close, Kill and Wait are dropped
StopResultPropagate(kerr) == kerr

StopResult(kerr) == "nil"

\* c.wg.Wait() returns once the read-loop goroutine has returned (or was never started)
WaitGroupNoWait(l) == TRUE

WaitGroupDone(l) == l \in {"idle", "ret_ctx", "ret_eof", "ret_err"}


\* ----------------------------------------------- the child process (environment)
\* The child answers one request it has read and not yet answered, in any order, with
\* the request's identifier as it stands on the wire.
ServerRespond(c) ==
    /\ proc[c] = "running"
    /\ \E i \in (1..Len(wire[c])) \ answered[c] :
         /\ wire[c][i].jid # JNull
         /\ out' = [out EXCEPT ![c] = Append(@,
                      [kind |-> "response", jid |-> wire[c][i].jid, result |-> "r", error |-> NoError])]
         /\ answered' = [answered EXCEPT ![c] = @ \cup {i}]
    /\ UNCHANGED <<connVars, clientVars, wire, threadVars, routerVars, codec, execVars>>

\* the error of a response that reports a failure
MethodNotFound == [code |-> -32601, message |-> "Method not found"]

\* The child answers a request with an error response under the request's identifier.
ServerRespondError(c) ==
    /\ proc[c] = "running"
    /\ \E i \in (1..Len(wire[c])) \ answered[c] :
         /\ wire[c][i].jid # JNull
         /\ out' = [out EXCEPT ![c] = Append(@,
                      [kind |-> "response", jid |-> wire[c][i].jid, result |-> "none",
                       error |-> MethodNotFound])]
         /\ answered' = [answered EXCEPT ![c] = @ \cup {i}]
    /\ UNCHANGED <<connVars, clientVars, wire, threadVars, routerVars, codec, execVars>>

\* The child answers once more a request it has already answered: a duplicate response
\* under the same identifier (position -i of answered records it; one duplicate is all
\* the child writes).
ServerRespondAgain(c) ==
    /\ proc[c] = "running"
    /\ \A j \in answered[c] : j >= 0
    /\ \E i \in 1..Len(wire[c]) :
         /\ i \in answered[c]
         /\ out' = [out EXCEPT ![c] = Append(@,
                      [kind |-> "response", jid |-> wire[c][i].jid, result |-> "r", error |-> NoError])]
         /\ answered' = [answered EXCEPT ![c] = @ \cup {0 - i}]
    /\ UNCHANGED <<connVars, clientVars, wire, threadVars, routerVars, codec, execVars>>

\* The child writes something that is not a JSON value (the first such message the read
\* loop meets ends it, so one is all that can matter).
ServerGarbage(c) ==
    /\ proc[c] = "running"
    /\ 0 \notin answered[c]
    /\ out' = [out EXCEPT ![c] = Append(@,
                 [kind |-> "garbage", jid |-> JNull, result |-> "none", error |-> NoError])]
    /\ answered' = [answered EXCEPT ![c] = @ \cup {0}]
    /\ UNCHANGED <<connVars, clientVars, wire, threadVars, routerVars, codec, execVars>>

\* The child exits on its own: its end of both pipes closes.
ServerExit(c) ==
    /\ proc[c] = "running"
    /\ proc' = [proc EXCEPT ![c] = "exited"]
    /\ UNCHANGED <<ctxDone, stdinOpen, stdoutOpen, loop, kills, stopped,
                   clientVars, pipeVars, threadVars, routerVars, codec, execVars>>

\* ------------------------------------------------ Client.Start, the read loop
\* client.go:112-116: the non-blocking look at ctx.Done() at the top of each round
ClientStartSelect(c) ==
    /\ loop[c] = "select"
    /\ loop' = [loop EXCEPT ![c] = IF ctxDone[c] THEN "ret_ctx" ELSE "decode"]
    /\ UNCHANGED <<proc, ctxDone, stdinOpen, stdoutOpen, kills, stopped,
                   clientVars, pipeVars, threadVars, routerVars, codec, execVars>>

\* client.go:118-136 with a loop that gives up when nobody waits for the response
ClientStartDecodeUnknownEnds(c) ==
    /\ loop[c] = "decode"
    /\ out[c] # <<>>
    /\ LET msg == Head(out[c])
           resp == DecodeResponse(msg)
           exists == resp.id \in DOMAIN requests[c]
           sent == exists /\ chan[requests[c][resp.id]] = <<>>
       IN  /\ out' = [out EXCEPT ![c] = Tail(@)]
           /\ IF msg.kind = "garbage" \/ ~exists
              THEN /\ loop' = [loop EXCEPT ![c] = "ret_err"]
                   /\ chan' = chan
              ELSE /\ loop' = [loop EXCEPT ![c] = "select"]
                   /\ chan' = IF sent THEN [chan EXCEPT ![requests[c][resp.id]] = <<resp>>] ELSE chan
    /\ UNCHANGED <<proc, ctxDone, stdinOpen, stdoutOpen, kills, stopped, clientVars, wire, answered,
                   pc, ret, tconn, tsrv, tid, ctxC, terr, sret, outcome, routerVars, codec, execVars>>

\* client.go:118-136: Decode gives a message; a malformed one ends the loop with an
\* error, any other is looked up by its decoded identifier and handed over without
\* blocking.
ClientStartDecode(c) ==
    /\ loop[c] = "decode"
    /\ out[c] # <<>>
    /\ LET msg == Head(out[c])
           resp == DecodeResponse(msg)
           exists == resp.id \in DOMAIN requests[c]
           sent == exists /\ chan[requests[c][resp.id]] = <<>>
       IN  /\ out' = [out EXCEPT ![c] = Tail(@)]
           /\ IF msg.kind = "garbage"
              THEN /\ loop' = [loop EXCEPT ![c] = "ret_err"]
                   /\ chan' = chan
              ELSE /\ loop' = [loop EXCEPT ![c] = "select"]
                   /\ chan' = IF sent THEN [chan EXCEPT ![requests[c][resp.id]] = <<resp>>] ELSE chan
    /\ UNCHANGED <<proc, ctxDone, stdinOpen, stdoutOpen, kills, stopped, clientVars, wire, answered,
                   pc, ret, tconn, tsrv, tid, ctxC, terr, sret, outcome, routerVars, codec, execVars>>

\* client.go:119-122: Decode meets end-of-stream: the child is gone and nothing is left
ClientStartEOF(c) ==
    /\ loop[c] = "decode"
    /\ out[c] = <<>>
    /\ proc[c] \in {"exited", "reaped", "killed"}
    /\ loop' = [loop EXCEPT ![c] = "ret_eof"]
    /\ UNCHANGED <<proc, ctxDone, stdinOpen, stdoutOpen, kills, stopped,
                   clientVars, pipeVars, threadVars, routerVars, codec, execVars>>

\* client.go:119-123: Decode reads from a pipe Stop has closed: a read error
ClientStartClosed(c) ==
    /\ loop[c] = "decode"
    /\ ~stdoutOpen[c]
    /\ loop' = [loop EXCEPT ![c] = "ret_err"]
    /\ UNCHANGED <<proc, ctxDone, stdinOpen, stdoutOpen, kills, stopped,
                   clientVars, pipeVars, threadVars, routerVars, codec, execVars>>

\* ------------------------------------------------------------ Client.Call
\* client.go:57-73 with the increment of nextID (line 60) left out
CallRegisterSameID(t) ==
    /\ pc[t] = "call_reg"
    /\ tid' = [tid EXCEPT ![t] = Int64(nextID[tconn[t]])]
    /\ nextID' = nextID
    /\ requests' = [requests EXCEPT ![tconn[t]] = PutPending(@, Int64(nextID[tconn[t]]), t)]
    /\ chan' = [chan EXCEPT ![t] = <<>>]
    /\ pc' = [pc EXCEPT ![t] = "call_send"]
    /\ UNCHANGED <<connVars, pipeVars, ret, tconn, tsrv, ctxC, terr, sret, outcome, routerVars, codec, execVars>>

\* client.go:57-73: the identifier is taken under idMu, the response channel is made
\* and stored under mu; nothing else can tell the two apart before the request is written
CallRegister(t) ==
    /\ pc[t] = "call_reg"
    /\ tid' = [tid EXCEPT ![t] = Int64(nextID[tconn[t]])]
    /\ nextID' = [nextID EXCEPT ![tconn[t]] = @ + 1]
    /\ requests' = [requests EXCEPT ![tconn[t]] = PutPending(@, Int64(nextID[tconn[t]]), t)]
    /\ chan' = [chan EXCEPT ![t] = <<>>]
    /\ pc' = [pc EXCEPT ![t] = "call_send"]
    /\ UNCHANGED <<connVars, pipeVars, ret, tconn, tsrv, ctxC, terr, sret, outcome, routerVars, codec, execVars>>

\* client.go:75-81 with the return after a failed write left out
CallSendFallThrough(t) ==
    /\ pc[t] = "call_send"
    /\ LET c == tconn[t] IN
       IF WriteFails(c)
       THEN /\ requests' = [requests EXCEPT ![c] = DeletePending(@, tid[t])]
            /\ outcome' = [outcome EXCEPT ![t] = Append(@, "failure")]
            /\ terr' = [terr EXCEPT ![t] = "send_failed"]
            /\ pc' = [pc EXCEPT ![t] = "call_wait"]
            /\ wire' = wire
       ELSE /\ wire' = [wire EXCEPT ![c] = Append(@,
                           EncodeRequest(NewJSONRPCRequest(tid[t], MethodOf(t), "p")))]
            /\ pc' = [pc EXCEPT ![t] = "call_wait"]
            /\ UNCHANGED <<requests, outcome, terr>>
    /\ UNCHANGED <<connVars, nextID, out, answered, ret, tconn, tsrv, tid, ctxC, chan, sret,
                   routerVars, codec, execVars>>

\* client.go:75-81: one Write of the whole encoded request; on failure the entry is
\* removed and Call returns the send failure
CallSend(t) ==
    /\ pc[t] = "call_send"
    /\ LET c == tconn[t] IN
       IF WriteFails(c)
       THEN /\ requests' = [requests EXCEPT ![c] = DeletePending(@, tid[t])]
            /\ outcome' = [outcome EXCEPT ![t] = Append(@, "failure")]
            /\ terr' = [terr EXCEPT ![t] = "send_failed"]
            /\ pc' = [pc EXCEPT ![t] = ret[t]]
            /\ wire' = wire
       ELSE /\ wire' = [wire EXCEPT ![c] = Append(@,
                           EncodeRequest(NewJSONRPCRequest(tid[t], MethodOf(t), "p")))]
            /\ pc' = [pc EXCEPT ![t] = "call_wait"]
            /\ UNCHANGED <<requests, outcome, terr>>
    /\ UNCHANGED <<connVars, nextID, out, answered, ret, tconn, tsrv, tid, ctxC, chan, sret,
                   routerVars, codec, execVars>>

\* the cases of the select at client.go:84 that are ready
SelectReady(t) ==
    {b \in {"ctx", "resp"} : (b = "ctx" /\ CtxIsDone(t)) \/ (b = "resp" /\ chan[t] # <<>>)}

\* client.go:83-106: the select takes one ready case; either way the entry is removed
CallWait(t) ==
    /\ pc[t] = "call_wait"
    /\ \E b \in SelectReady(t) :
         IF b = "ctx"
         THEN /\ outcome' = [outcome EXCEPT ![t] = Append(@, "cancelled")]
              /\ terr' = [terr EXCEPT ![t] = "ctx_err"]
              /\ chan' = chan
         ELSE /\ outcome' = [outcome EXCEPT ![t] = Append(@, "response")]
              /\ terr' = [terr EXCEPT ![t] =
                            IF Head(chan[t]).error # NoError THEN "rpc_error" ELSE "nil"]
              /\ chan' = [chan EXCEPT ![t] = <<>>]
    /\ requests' = [requests EXCEPT ![tconn[t]] = DeletePending(@, tid[t])]
    /\ pc' = [pc EXCEPT ![t] = ret[t]]
    /\ UNCHANGED <<connVars, nextID, pipeVars, ret, tconn, tsrv, tid, ctxC, sret, routerVars, codec, execVars>>

\* a caller of Client.Call starts a call with a context of its own
CallerCall(t) ==
    /\ t \in Callers
    /\ pc[t] = "idle"
    /\ pc' = [pc EXCEPT ![t] = "call_reg"]
    /\ ctxC' = [ctxC EXCEPT ![t] = FALSE]
    /\ outcome' = [outcome EXCEPT ![t] = <<>>]
    /\ terr' = [terr EXCEPT ![t] = "none"]
    /\ UNCHANGED <<connVars, clientVars, pipeVars, ret, tconn, tsrv, tid, chan, sret, routerVars, codec, execVars>>

\* the caller's context is cancelled or expires while its Call waits (Call looks at
\* the context nowhere before the select)
CtxCancel(t) ==
    /\ ret[t] = "caller_ret"
    /\ pc[t] = "call_wait"
    /\ ~ctxC[t]
    /\ ctxC' = [ctxC EXCEPT ![t] = TRUE]
    /\ UNCHANGED <<connVars, clientVars, pipeVars, pc, ret, tconn, tsrv, tid, chan, terr, sret, outcome,
                   routerVars, codec, execVars>>

\* ------------------------------------------------------------- Connection
\* server.go:211-225: Command.Start, then the read-loop goroutine; a failed Start
\* closes the pipes and launches nothing
ConnectionStart(t) ==
    /\ pc[t] = "conn_start"
    /\ LET c == tconn[t] IN
       \E ok \in BOOLEAN :
         IF ok
         THEN /\ proc' = [proc EXCEPT ![c] = "running"]
              /\ loop' = [loop EXCEPT ![c] = "select"]
              /\ terr' = [terr EXCEPT ![t] = "nil"]
              /\ UNCHANGED <<stdinOpen, stdoutOpen>>
         ELSE /\ stdinOpen' = [stdinOpen EXCEPT ![c] = FALSE]
              /\ stdoutOpen' = [stdoutOpen EXCEPT ![c] = FALSE]
              /\ terr' = [terr EXCEPT ![t] = "start_failed"]
              /\ UNCHANGED <<proc, loop>>
    /\ pc' = [pc EXCEPT ![t] = ret[t]]
    /\ UNCHANGED <<ctxDone, kills, stopped, clientVars, pipeVars, ret, tconn, tsrv, tid, ctxC, chan,
                   sret, outcome, routerVars, codec, execVars>>

\* server.go:229: c.cancel()
StopCancel(t) ==
    /\ pc[t] = "stop_cancel"
    /\ ctxDone' = [ctxDone EXCEPT ![tconn[t]] = TRUE]
    /\ pc' = [pc EXCEPT ![t] = "stop_close"]
    /\ UNCHANGED <<proc, stdinOpen, stdoutOpen, loop, kills, stopped, clientVars, pipeVars,
                   ret, tconn, tsrv, tid, ctxC, chan, terr, sret, outcome, routerVars, codec, execVars>>

\* server.go:231-241: close both pipes, then Kill and Wait when a process was started
StopCloseKill(t) ==
    /\ pc[t] = "stop_close"
    /\ LET c == tconn[t] IN
       /\ stdinOpen' = [stdinOpen EXCEPT ![c] = FALSE]
       /\ stdoutOpen' = [stdoutOpen EXCEPT ![c] = FALSE]
       /\ proc' = [proc EXCEPT ![c] = ProcessKill(@)]
       /\ kills' = [kills EXCEPT ![c] = IF ProcessKill(proc[c]) = "killed" /\ proc[c] # "killed"
                                         THEN @ + 1 ELSE @]
       /\ sret' = [sret EXCEPT ![t] = IF proc[c] = "none" THEN "nil" ELSE StopResult(KillErr(proc[c]))]
    /\ pc' = [pc EXCEPT ![t] = "stop_join"]
    /\ UNCHANGED <<ctxDone, loop, stopped, clientVars, pipeVars,
                   ret, tconn, tsrv, tid, ctxC, chan, terr, outcome, routerVars, codec, execVars>>

\* server.go:243-244: c.wg.Wait(), then return nil
StopJoin(t) ==
    /\ pc[t] = "stop_join"
    /\ WaitGroupDone(loop[tconn[t]])
    /\ stopped' = [stopped EXCEPT ![tconn[t]] = @ + 1]
    /\ pc' = [pc EXCEPT ![t] = ret[t]]
    /\ UNCHANGED <<proc, ctxDone, stdinOpen, stdoutOpen, loop, kills, clientVars, pipeVars,
                   ret, tconn, tsrv, tid, ctxC, chan, terr, sret, outcome, routerVars, codec, execVars>>

\* the owner of the Connection calls Stop, and may call it again
OwnerStop(t) ==
    /\ t = Owner
    /\ pc[t] \in {"own_started", "own_stopped"}
    /\ stopped[tconn[t]] < 2
    /\ pc' = [pc EXCEPT ![t] = "stop_cancel"]
    /\ ret' = [ret EXCEPT ![t] = "own_stopped"]
    /\ UNCHANGED <<connVars, clientVars, pipeVars, tconn, tsrv, tid, ctxC, chan, terr, sret, outcome,
                   routerVars, codec, execVars>>

\* ------------------------------------------------------------------ Router
\* router.go:82-97 and 117-143: Execute in forwarded mode asks getMCPClient for the
\* client of the skill's server: the cached one, or a Connection made for it
executeMCP(t, s) ==
    /\ tsrv' = [tsrv EXCEPT ![t] = s]
    /\ outcome' = [outcome EXCEPT ![t] = <<>>]
    /\ IF s = NoServer
       THEN /\ pc' = [pc EXCEPT ![t] = "r_ret"]
            /\ terr' = [terr EXCEPT ![t] = "not_configured"]
            /\ UNCHANGED <<tconn, ret, nconn>>
       ELSE IF s \in DOMAIN mcpClients
       THEN /\ tconn' = [tconn EXCEPT ![t] = mcpClients[s]]
            /\ pc' = [pc EXCEPT ![t] = "call_reg"]
            /\ ret' = [ret EXCEPT ![t] = "r_ret"]
            /\ terr' = [terr EXCEPT ![t] = "none"]
            /\ nconn' = nconn
       ELSE IF s \notin MCPServers
       THEN /\ pc' = [pc EXCEPT ![t] = "r_ret"]
            /\ terr' = [terr EXCEPT ![t] = "server_not_found"]
            /\ UNCHANGED <<tconn, ret, nconn>>
       ELSE /\ nconn' = nconn + 1
            /\ tconn' = [tconn EXCEPT ![t] = nconn + 1]
            /\ pc' = [pc EXCEPT ![t] = "conn_start"]
            /\ ret' = [ret EXCEPT ![t] = "r_started"]
            /\ terr' = [terr EXCEPT ![t] = "none"]
    /\ UNCHANGED <<connVars, clientVars, pipeVars, tid, ctxC, chan, sret,
                   mcpClients, connections, clients, mu, codec, run, conv, srv, reg>>

\* router.go:58-71 taking the configured mode as it stands
determineExecutionModeAsConfigured(k) ==
    IF k \in DOMAIN SkillConfigs THEN SkillConfigs[k].mode ELSE "direct"

\* router.go:58-71: the configured mode unless it is auto; direct for auto and for a
\* skill without configuration
determineExecutionMode(k) ==
    IF k \in DOMAIN SkillConfigs /\ SkillConfigs[k].mode # "auto"
    THEN SkillConfigs[k].mode
    ELSE "direct"

\* router.go:85-88: the server name configured for the skill
SkillServer(k) == IF k \in DOMAIN SkillConfigs THEN SkillConfigs[k].server ELSE NoServer

\* router.go:29-55: the skill is looked up in the registry; the switch on the mode
\* hands over to executeDirect or to executeMCP
Execute(t, k) ==
    /\ t \in Callers
    /\ pc[t] = "r_idle"
    /\ tskill' = [tskill EXCEPT ![t] = k]
    /\ direct' = direct
    /\ IF k \notin Registered
       THEN /\ pc' = [pc EXCEPT ![t] = "r_ret"]
            /\ terr' = [terr EXCEPT ![t] = "skill_not_found"]
            /\ UNCHANGED <<connVars, clientVars, pipeVars, ret, tconn, tsrv, tid, ctxC, chan, sret,
                           outcome, routerVars, codec, run, conv, srv, reg>>
       ELSE IF determineExecutionMode(k) = "mcp"
       THEN executeMCP(t, SkillServer(k))
       ELSE /\ pc' = [pc EXCEPT ![t] = "x_direct"]
            /\ ret' = [ret EXCEPT ![t] = IF determineExecutionMode(k) = "auto" THEN "x_auto" ELSE "r_ret"]
            /\ terr' = [terr EXCEPT ![t] = "none"]
            /\ UNCHANGED <<connVars, clientVars, pipeVars, tconn, tsrv, tid, ctxC, chan, sret,
                           outcome, routerVars, codec, run, conv, srv, reg>>

\* router.go:74-79 and 44-51: the Direct Executor runs the skill and Execute returns what
\* it returned; inside the auto case of the switch a failure goes on to executeMCP
executeDirect(t) ==
    /\ pc[t] = "x_direct"
    /\ direct' = [direct EXCEPT ![t] = @ + 1]
    /\ tskill' = tskill
    /\ \E ok \in BOOLEAN :
         IF ~ok /\ ret[t] = "x_auto"
         THEN executeMCP(t, SkillServer(tskill[t]))
         ELSE /\ pc' = [pc EXCEPT ![t] = "r_ret"]
              /\ ret' = [ret EXCEPT ![t] = "r_ret"]
              /\ terr' = [terr EXCEPT ![t] = IF ok THEN "nil" ELSE "exec_failed"]
              /\ UNCHANGED <<connVars, clientVars, pipeVars, tconn, tsrv, tid, ctxC, chan, sret,
                             outcome, routerVars, codec, run, conv, srv, reg>>

\* router.go:145-158: a failed Start is returned; otherwise conn.Initialize is called
RouterAfterStart(t) ==
    /\ pc[t] = "r_started"
    /\ IF terr[t] = "start_failed"
       THEN /\ pc' = [pc EXCEPT ![t] = "r_ret"]
            /\ ret' = ret
       ELSE /\ pc' = [pc EXCEPT ![t] = "call_reg"]
            /\ ret' = [ret EXCEPT ![t] = "r_init"]
    /\ UNCHANGED <<connVars, clientVars, pipeVars, tconn, tsrv, tid, ctxC, chan, terr, sret, outcome,
                   routerVars, codec, execVars>>

\* router.go:155-163 with the conn.Stop() of the failure path left out
RouterAfterInitializeNoStop(t) ==
    /\ pc[t] = "r_init"
    /\ LET c == tconn[t] IN
       IF terr[t] # "nil"
       THEN /\ pc' = [pc EXCEPT ![t] = "r_ret"]
            /\ terr' = [terr EXCEPT ![t] = "init_failed"]
            /\ UNCHANGED <<ret, wire, mcpClients, outcome>>
       ELSE /\ wire' = IF WriteFails(c) THEN wire
                       ELSE [wire EXCEPT ![c] = Append(@,
                               EncodeRequest(NewJSONRPCRequest(NilID, "initialized", "none")))]
            /\ mcpClients' = [x \in DOMAIN mcpClients \cup {tsrv[t]} |->
                                IF x = tsrv[t] THEN c ELSE mcpClients[x]]
            /\ pc' = [pc EXCEPT ![t] = "call_reg"]
            /\ ret' = [ret EXCEPT ![t] = "r_ret"]
            /\ outcome' = [outcome EXCEPT ![t] = <<>>]
            /\ terr' = terr
    /\ UNCHANGED <<connVars, clientVars, out, answered, tconn, tsrv, tid, ctxC, chan, sret,
                   connections, clients, mu, nconn, codec, execVars>>

\* client.go:44-52 and router.go:155-163: when the handshake failed the Connection is
\* stopped; otherwise the initialized notification is written (its error dropped), the
\* client is stored under the server name and the tool call follows (router.go:99-107)
RouterAfterInitialize(t) ==
    /\ pc[t] = "r_init"
    /\ LET c == tconn[t] IN
       IF terr[t] # "nil"
       THEN /\ pc' = [pc EXCEPT ![t] = "stop_cancel"]
            /\ ret' = [ret EXCEPT ![t] = "r_initfail"]
            /\ UNCHANGED <<wire, mcpClients, outcome, terr>>
       ELSE /\ wire' = IF WriteFails(c) THEN wire
                       ELSE [wire EXCEPT ![c] = Append(@,
                               EncodeRequest(NewJSONRPCRequest(NilID, "initialized", "none")))]
            /\ mcpClients' = [x \in DOMAIN mcpClients \cup {tsrv[t]} |->
                                IF x = tsrv[t] THEN c ELSE mcpClients[x]]
            /\ pc' = [pc EXCEPT ![t] = "call_reg"]
            /\ ret' = [ret EXCEPT ![t] = "r_ret"]
            /\ outcome' = [outcome EXCEPT ![t] = <<>>]
            /\ terr' = terr
    /\ UNCHANGED <<connVars, clientVars, out, answered, tconn, tsrv, tid, ctxC, chan, sret,
                   connections, clients, mu, nconn, codec, execVars>>

\* router.go:156-157 followed by another attempt in place of the return
RouterInitFailedRetry(t) ==
    /\ pc[t] = "r_initfail"
    /\ executeMCP(t, tsrv[t])
    /\ UNCHANGED <<tskill, direct>>

\* router.go:156-157: Stop has returned; getMCPClient returns the initialize failure
RouterInitFailed(t) ==
    /\ pc[t] = "r_initfail"
    /\ pc' = [pc EXCEPT ![t] = "r_ret"]
    /\ terr' = [terr EXCEPT ![t] = "init_failed"]
    /\ UNCHANGED <<connVars, clientVars, pipeVars, ret, tconn, tsrv, tid, ctxC, chan, sret, outcome,
                   routerVars, codec, execVars>>

\* ----------------------------------------------------- ExternalServerManager
\* client.go:212-219: Connect takes m.mu for its whole run and starts the Connection
\* its caller made
Connect(t, s) ==
    /\ t \in Callers
    /\ pc[t] = "r_idle"
    /\ mu = 0
    /\ mu' = t
    /\ nconn' = nconn + 1
    /\ tconn' = [tconn EXCEPT ![t] = nconn + 1]
    /\ tsrv' = [tsrv EXCEPT ![t] = s]
    /\ pc' = [pc EXCEPT ![t] = "conn_start"]
    /\ ret' = [ret EXCEPT ![t] = "m_started"]
    /\ terr' = [terr EXCEPT ![t] = "none"]
    /\ outcome' = [outcome EXCEPT ![t] = <<>>]
    /\ UNCHANGED <<connVars, clientVars, pipeVars, tid, ctxC, chan, sret,
                   mcpClients, connections, clients, codec, execVars>>

\* client.go:217-226 with a Connect that returns nil once the Connection has started
ConnectAfterStartReturns(t) ==
    /\ pc[t] = "m_started"
    /\ pc' = [pc EXCEPT ![t] = "r_ret"]
    /\ mu' = 0
    /\ ret' = ret
    /\ UNCHANGED <<connVars, clientVars, pipeVars, tconn, tsrv, tid, ctxC, chan, terr, sret, outcome,
                   mcpClients, connections, clients, nconn, codec, execVars>>

\* client.go:217-226
ConnectAfterStart(t) ==
    /\ pc[t] = "m_started"
    /\ IF terr[t] = "start_failed"
       THEN /\ pc' = [pc EXCEPT ![t] = "r_ret"]
            /\ mu' = 0
            /\ ret' = ret
       ELSE /\ pc' = [pc EXCEPT ![t] = "call_reg"]
            /\ ret' = [ret EXCEPT ![t] = "m_init"]
            /\ mu' = mu
    /\ UNCHANGED <<connVars, clientVars, pipeVars, tconn, tsrv, tid, ctxC, chan, terr, sret, outcome,
                   mcpClients, connections, clients, nconn, codec, execVars>>

\* client.go:44-52 and 226-235 with the notification written before the handshake's
\* error is looked at
ConnectAfterInitializeNotifyFirst(t) ==
    /\ pc[t] = "m_init"
    /\ LET c == tconn[t] IN
       /\ wire' = IF WriteFails(c) THEN wire
                  ELSE [wire EXCEPT ![c] = Append(@,
                          EncodeRequest(NewJSONRPCRequest(NilID, "initialized", "none")))]
       /\ IF terr[t] # "nil"
          THEN /\ pc' = [pc EXCEPT ![t] = "stop_cancel"]
               /\ ret' = [ret EXCEPT ![t] = "m_initfail"]
               /\ UNCHANGED <<connections, clients, mu>>
          ELSE /\ connections' = [x \in DOMAIN connections \cup {tsrv[t]} |->
                                    IF x = tsrv[t] THEN c ELSE connections[x]]
               /\ clients' = [x \in DOMAIN clients \cup {tsrv[t]} |->
                                IF x = tsrv[t] THEN c ELSE clients[x]]
               /\ mu' = 0
               /\ pc' = [pc EXCEPT ![t] = "r_ret"]
               /\ ret' = ret
    /\ UNCHANGED <<connVars, clientVars, out, answered, tconn, tsrv, tid, ctxC, chan, terr, sret, outcome,
                   mcpClients, nconn, codec, execVars>>

\* client.go:44-52 and 226-235: when the handshake failed the Connection is stopped;
\* otherwise the notification is written and the Connection and its Client are stored
ConnectAfterInitialize(t) ==
    /\ pc[t] = "m_init"
    /\ LET c == tconn[t] IN
       IF terr[t] # "nil"
       THEN /\ pc' = [pc EXCEPT ![t] = "stop_cancel"]
            /\ ret' = [ret EXCEPT ![t] = "m_initfail"]
            /\ UNCHANGED <<wire, connections, clients, mu>>
       ELSE /\ wire' = IF WriteFails(c) THEN wire
                       ELSE [wire EXCEPT ![c] = Append(@,
                               EncodeRequest(NewJSONRPCRequest(NilID, "initialized", "none")))]
            /\ connections' = [x \in DOMAIN connections \cup {tsrv[t]} |->
                                 IF x = tsrv[t] THEN c ELSE connections[x]]
            /\ clients' = [x \in DOMAIN clients \cup {tsrv[t]} |->
                             IF x = tsrv[t] THEN c ELSE clients[x]]
            /\ mu' = 0
            /\ pc' = [pc EXCEPT ![t] = "r_ret"]
            /\ ret' = ret
    /\ UNCHANGED <<connVars, clientVars, out, answered, tconn, tsrv, tid, ctxC, chan, terr, sret, outcome,
                   mcpClients, nconn, codec, execVars>>

\* client.go:227-228: Stop has returned; Connect returns the failure and releases m.mu
ConnectInitFailed(t) ==
    /\ pc[t] = "m_initfail"
    /\ pc' = [pc EXCEPT ![t] = "r_ret"]
    /\ terr' = [terr EXCEPT ![t] = "init_failed"]
    /\ mu' = 0
    /\ UNCHANGED <<connVars, clientVars, pipeVars, ret, tconn, tsrv, tid, ctxC, chan, sret, outcome,
                   mcpClients, connections, clients, nconn, codec, execVars>>

\* delete(m.connections, name), delete(m.clients, name)
MapDelete(m, name) == [x \in DOMAIN m \ {name} |-> m[x]]

\* client.go:239-255: Disconnect takes m.mu; a name that is not stored gives `server not
\* connected`; otherwise the Connection is stopped and, when Stop has returned no error,
\* the name is deleted from both maps (the part after Stop is the ELSE branch)
Disconnect(t, s) ==
    /\ t \in Callers
    /\ pc[t] \in {"r_idle", "m_disc"}
    /\ IF pc[t] = "r_idle"
       THEN /\ mu = 0
            /\ tsrv' = [tsrv EXCEPT ![t] = s]
            /\ ret' = [ret EXCEPT ![t] = "m_disc"]
            /\ IF s \notin DOMAIN connections
               THEN /\ pc' = [pc EXCEPT ![t] = "r_ret"]
                    /\ terr' = [terr EXCEPT ![t] = "not_connected"]
                    /\ mu' = 0
                    /\ tconn' = tconn
               ELSE /\ pc' = [pc EXCEPT ![t] = "stop_cancel"]
                    /\ terr' = [terr EXCEPT ![t] = "none"]
                    /\ mu' = t
                    /\ tconn' = [tconn EXCEPT ![t] = connections[s]]
            /\ UNCHANGED <<connections, clients>>
       ELSE /\ tsrv[t] = s
            /\ IF sret[t] # "nil"
               THEN /\ terr' = [terr EXCEPT ![t] = "stop_failed"]
                    /\ UNCHANGED <<connections, clients>>
               ELSE /\ terr' = [terr EXCEPT ![t] = "nil"]
                    /\ connections' = MapDelete(connections, s)
                    /\ clients' = MapDelete(clients, s)
            /\ pc' = [pc EXCEPT ![t] = "r_ret"]
            /\ mu' = 0
            /\ UNCHANGED <<tsrv, ret, tconn>>
    /\ UNCHANGED <<connVars, clientVars, pipeVars, tid, ctxC, chan, sret, outcome,
                   mcpClients, nconn, codec, execVars>>

\* client.go:304-317: Close takes m.mu and, for each stored name, stops the Connection
\* and deletes the name from both maps; it returns the last error Stop gave (the part
\* after a Stop is the ELSE branch)
Close(t) ==
    /\ t \in Callers
    /\ pc[t] \in {"r_idle", "m_close"}
    /\ LET left == IF pc[t] = "r_idle" THEN connections ELSE MapDelete(connections, tsrv[t])
           lastErr == IF pc[t] = "r_idle" THEN "nil"
                      ELSE IF sret[t] # "nil" THEN "stop_failed" ELSE terr[t]
       IN  /\ pc[t] = "r_idle" => mu = 0
           /\ connections' = left
           /\ clients' = IF pc[t] = "r_idle" THEN clients ELSE MapDelete(clients, tsrv[t])
           /\ terr' = [terr EXCEPT ![t] = lastErr]
           /\ ret' = [ret EXCEPT ![t] = "m_close"]
           /\ IF DOMAIN left = {}
              THEN /\ pc' = [pc EXCEPT ![t] = "r_ret"]
                   /\ mu' = 0
                   /\ UNCHANGED <<tsrv, tconn>>
              ELSE \E s \in DOMAIN left :
                     /\ tsrv' = [tsrv EXCEPT ![t] = s]
                     /\ tconn' = [tconn EXCEPT ![t] = left[s]]
                     /\ pc' = [pc EXCEPT ![t] = "stop_cancel"]
                     /\ mu' = t
    /\ UNCHANGED <<connVars, clientVars, pipeVars, tid, ctxC, chan, sret, outcome,
                   mcpClients, nconn, codec, execVars>>

\* Connect works on a Connection its caller made and still holds: the caller may call
\* Stop on it while Connect is inside the handshake
OwnerStopConnecting(t) ==
    /\ t = Owner
    /\ pc[t] = "off"
    /\ mu # 0
    /\ ret[mu] = "m_init"
    /\ tconn' = [tconn EXCEPT ![t] = tconn[mu]]
    /\ pc' = [pc EXCEPT ![t] = "stop_cancel"]
    /\ ret' = [ret EXCEPT ![t] = "own_stopped"]
    /\ UNCHANGED <<connVars, clientVars, pipeVars, tsrv, tid, ctxC, chan, terr, sret, outcome,
                   routerVars, codec, execVars>>

ServerNext == \E c \in Conns : ServerRespond(c) \/ ServerGarbage(c) \/ ServerExit(c)

LoopNext ==
    \E c \in Conns : ClientStartSelect(c) \/ ClientStartDecode(c) \/ ClientStartEOF(c) \/ ClientStartClosed(c)

CallNext == \E t \in Procs : CallRegister(t) \/ CallSend(t) \/ CallWait(t)

StopNext == \E t \in Procs : StopCancel(t) \/ StopCloseKill(t) \/ StopJoin(t)

\* the callers of one started Connection's Client, its read loop and its child
Next ==
    \/ ServerNext
    \/ \E c \in Conns : ClientStartSelect(c) \/ ClientStartDecode(c) \/ ClientStartEOF(c)
    \/ CallNext
    \/ \E t \in Procs : CallerCall(t) \/ CtxCancel(t)

Spec == Init /\ [][Next]_vars

\* the same with a child that also answers with error responses
NextCallError == Next \/ \E c \in Conns : ServerRespondError(c)

CallErrorSpec == Init /\ [][NextCallError]_vars

\* the callers of one started Connection's Client and its read loop, with a child that
\* stays up, answers, and may repeat a response
NextDuplicate ==
    \/ \E c \in Conns : ServerRespond(c) \/ ServerRespondAgain(c)
    \/ \E c \in Conns : ClientStartSelect(c) \/ ClientStartDecode(c)
    \/ CallNext
    \/ \E t \in Procs : CallerCall(t) \/ CtxCancel(t)

DuplicateSpec == Init /\ [][NextDuplicate]_vars

\* a Connection from Start to Stop, and Stop again, with a caller, the read loop and the child
NextStop ==
    \/ ServerNext
    \/ LoopNext
    \/ CallNext
    \/ StopNext
    \/ \E t \in Procs : ConnectionStart(t) \/ CallerCall(t) \/ CtxCancel(t) \/ OwnerStop(t)

StopSpec == InitStop /\ [][NextStop]_vars


\* No Connection exists; two goroutines call Router.Execute for skills in forwarded mode and
\* ExternalServerManager.Connect.
InitRouter ==
    /\ InitCommon
    /\ codec = NoCodec
    /\ run = NoRun
    /\ conv = NoConv
    /\ srv = NoSrv
    /\ reg = NoReg
    /\ proc = [c \in Conns |-> "none"]
    /\ loop = [c \in Conns |-> "idle"]
    /\ nconn = 0
    /\ pc = [t \in Procs |-> IF t \in Pair THEN "r_idle" ELSE "off"]
    /\ ret = [t \in Procs |-> "r_ret"]

NextRouter ==
    \/ \E c \in Conns : ServerRespond(c) \/ ServerExit(c)
    \/ LoopNext
    \/ CallNext
    \/ StopNext
    \/ \E t \in Procs : ConnectionStart(t)
    \/ \E t \in Procs, k \in SkillNames : Execute(t, k)
    \/ \E t \in Procs : executeDirect(t)
    \/ \E t \in Procs : RouterAfterStart(t) \/ RouterAfterInitialize(t) \/ RouterInitFailed(t)
    \/ \E t \in Procs, s \in MCPServers : Connect(t, s)
    \/ \E t \in Procs : ConnectAfterStart(t) \/ ConnectAfterInitialize(t) \/ ConnectInitFailed(t)
    \/ \E t \in Procs : OwnerStopConnecting(t)

RouterSpec == InitRouter /\ [][NextRouter]_vars


\* No Connection exists; two goroutines call Connect, Disconnect and Close of one
\* ExternalServerManager, and the goroutine that made a Connection may stop it
NextManager ==
    \/ \E c \in Conns : ServerRespond(c) \/ ServerExit(c)
    \/ LoopNext
    \/ CallNext
    \/ StopNext
    \/ \E t \in Procs : ConnectionStart(t)
    \/ \E t \in Procs, s \in MCPServers : Connect(t, s)
    \/ \E t \in Procs : ConnectAfterStart(t) \/ ConnectAfterInitialize(t) \/ ConnectInitFailed(t)
    \/ \E t \in Procs, s \in MCPServers : Disconnect(t, s)
    \/ \E t \in Procs : Close(t)
    \/ \E t \in Procs : OwnerStopConnecting(t)

ManagerSpec == InitRouter /\ [][NextManager]_vars

\* RouterSpec with the scheduling Go gives: every goroutine that can take a step of the
\* program takes it. The child process is under no obligation to answer.
FairRouterSpec ==
    /\ RouterSpec
    /\ WF_vars(LoopNext)
    /\ WF_vars(CallNext)
    /\ WF_vars(StopNext)
    /\ WF_vars(\E t \in Procs : ConnectionStart(t) \/ executeDirect(t) \/ RouterAfterStart(t)
                                   \/ RouterAfterInitialize(t) \/ RouterInitFailed(t))

\* Spec with the scheduling Go gives: a goroutine inside Call and the read-loop goroutine
\* keep running while they can take a step. Callers, their contexts and the child are
\* under no obligation.
FairSpec ==
    /\ Spec
    /\ WF_vars(CallNext)
    /\ WF_vars(\E c \in Conns : ClientStartSelect(c) \/ ClientStartDecode(c) \/ ClientStartEOF(c))

\* ------------------------------------------------- the codec on its own
\* identifiers: absent, the int64 values Client.Call allocates, float64 and string values
CodecIDs ==
    {NilID} \cup {Int64(n) : n \in Callers} \cup {Float64(n) : n \in Callers}
            \cup {String(n) : n \in Callers}

CodecRequests ==
    {NewJSONRPCRequest(id, m, ps) :
        id \in CodecIDs, m \in {"initialize", "initialized", "tools/call"}, ps \in {"none", "p"}}

\* what NewJSONRPCResponse builds (protocol.go:210-227): an error, a result, or neither
CodecResponses ==
    {[id |-> id, result |-> r.result, error |-> r.error] :
        id \in CodecIDs,
        r \in {[result |-> "r", error |-> NoError],
               [result |-> "none", error |-> NoError],
               [result |-> "none", error |-> [code |-> -32601, message |-> "Method not found"]]}}

InitCodec ==
    /\ InitCommon
    /\ proc = [c \in Conns |-> "none"]
    /\ loop = [c \in Conns |-> "idle"]
    /\ nconn = 0
    /\ pc = [t \in Procs |-> "off"]
    /\ ret = [t \in Procs |-> "off"]
    /\ run = NoRun
    /\ conv = NoConv
    /\ srv = NoSrv
    /\ reg = NoReg
    /\ \E k \in {"request", "response"} :
         \E e \in (IF k = "request" THEN CodecRequests ELSE CodecResponses) :
           codec = [stage |-> "value", kind |-> k, orig |-> e, bytes |-> 0, back |-> 0]

\* json.Encoder.Encode of the envelope
CodecEncode ==
    /\ codec.stage = "value"
    /\ codec' = [codec EXCEPT !.stage = "bytes",
                              !.bytes = IF codec.kind = "request" THEN EncodeRequest(codec.orig)
                                        ELSE EncodeResponse(codec.orig)]
    /\ UNCHANGED <<connVars, clientVars, pipeVars, threadVars, routerVars, execVars>>

\* json.Decoder.Decode into a JSONRPCRequest or a JSONRPCResponse
CodecDecode ==
    /\ codec.stage = "bytes"
    /\ codec' = [codec EXCEPT !.stage = "decoded",
                              !.back = IF codec.kind = "request" THEN DecodeRequest(codec.bytes)
                                       ELSE DecodeResponse(codec.bytes)]
    /\ UNCHANGED <<connVars, clientVars, pipeVars, threadVars, routerVars, execVars>>

NextCodec == CodecEncode \/ CodecDecode

CodecSpec == InitCodec /\ [][NextCodec]_vars

\* ------------------------------------------- parameters, files and texts
\* Texts are sequences of characters; a token longer than one character stands for a
\* non-empty run of characters without "/", "." or "-".
Sh == <<".", "s", "h">>
MainSh == <<"main">> \o Sh

\* Go values held in an interface{} parameter (ExecutionParams, ToolCallParams.Arguments):
\* strings, JSON numbers (float64 after decoding) and JSON objects
Str(s) == [t |-> "string", v |-> s]
Num(s) == [t |-> "float64", v |-> s]
Obj(f) == [t |-> "object", v |-> f]

\* m with the entries of n put over it (for k, v := range n { m[k] = v })
Overlay(m1, m2) ==
    [k \in DOMAIN m1 \cup DOMAIN m2 |-> IF k \in DOMAIN m2 THEN m2[k] ELSE m1[k]]

Restrict(m1, ks) == [k \in DOMAIN m1 \cap ks |-> m1[k]]

\* value, ok := m[k].(string)
IsString(m1, k) == k \in DOMAIN m1 /\ m1[k].t = "string"

\* mcp_adapter.go:74-97: the action when it is a string, then the entries of the params
\* object, then every other top-level argument, each put over what is there
ToolCallToSkillParams(arguments) ==
    LET p1 == IF IsString(arguments, "action")
              THEN [k \in {"action"} |-> arguments["action"]]
              ELSE EmptyMap
        p2 == IF "params" \in DOMAIN arguments /\ arguments["params"].t = "object"
              THEN Overlay(p1, arguments["params"].v)
              ELSE p1
    IN Overlay(p2, Restrict(arguments, DOMAIN arguments \ {"action", "params"}))

\* filepath.Ext: the suffix of the name from its last dot on, empty without a dot
Ext(name) ==
    LET dots == {i \in 1..Len(name) : name[i] = "."}
    IN IF dots = {} THEN <<>>
       ELSE SubSeq(name, CHOOSE i \in dots : \A j \in dots : j <= i, Len(name))

\* os.Stat on a name inside the scripts directory succeeds for a file and for a directory
StatOK(dir, name) == dir.ok /\ \E i \in 1..Len(dir.entries) : dir.entries[i].name = name

\* the entries a loop of findScript looks at: files with the extension .sh
IsScriptFile(e) == ~e.isDir /\ Ext(e.name) = Sh

NoPath == <<>>
Found(path) == [path |-> path, err |-> "nil"]
NotFound(err) == [path |-> NoPath, err |-> err]

\* direct/executor.go:71-113 with main.sh looked for before the action
findScriptMainFirst(dir, params) ==
    IF IsString(params, "script")
    THEN IF StatOK(dir, params["script"].v) THEN Found(params["script"].v)
         ELSE NotFound("script_not_found")
    ELSE IF ~dir.ok THEN NotFound("read_dir_failed")
    ELSE LET scripts == SelectSeq(dir.entries, IsScriptFile)
             mains == SelectSeq(scripts, LAMBDA e : e.name = MainSh)
         IN IF mains # <<>> THEN Found(mains[1].name)
            ELSE IF IsString(params, "action") /\ StatOK(dir, params["action"].v \o Sh)
            THEN Found(params["action"].v \o Sh)
            ELSE IF scripts # <<>> THEN Found(scripts[1].name)
            ELSE NotFound("no_script_found")

\* direct/executor.go:71-113: the script parameter when it is a string (found or not);
\* then <action>.sh when Stat finds it; then the entry main.sh; then the first entry
\* that is a file with the extension .sh; os.ReadDir lists the entries by name
findScript(dir, params) ==
    IF IsString(params, "script")
    THEN IF StatOK(dir, params["script"].v) THEN Found(params["script"].v)
         ELSE NotFound("script_not_found")
    ELSE IF IsString(params, "action") /\ StatOK(dir, params["action"].v \o Sh)
    THEN Found(params["action"].v \o Sh)
    ELSE IF ~dir.ok THEN NotFound("read_dir_failed")
    ELSE LET scripts == SelectSeq(dir.entries, IsScriptFile)
             mains == SelectSeq(scripts, LAMBDA e : e.name = MainSh)
         IN IF mains # <<>> THEN Found(mains[1].name)
            ELSE IF scripts # <<>> THEN Found(scripts[1].name)
            ELSE NotFound("no_script_found")

\* direct/executor.go:126-142: the parameters the loop does not skip
OtherKeys(params) == DOMAIN params \ {"script", "action"}

\* direct/executor.go:133: fmt.Sprintf("%v", value) of a string or a number is its text
ValueStr(value) == value.v

\* direct/executor.go:136: the environment variables SKILL_PARAM_<key>, by key
ParamEnv(params) == [k \in OtherKeys(params) |-> ValueStr(params[k])]

\* direct/executor.go:139-141: the keys whose value is not empty and does not start with "-"
ArgKeys(params) ==
    {k \in OtherKeys(params) : Len(ValueStr(params[k])) > 0 /\ ValueStr(params[k])[1] # "-"}

\* the orders in which a range over a Go map may visit the keys ks
KeyOrders(ks) ==
    {o \in [1..Cardinality(ks) -> ks] : \A i, j \in 1..Cardinality(ks) : i # j => o[i] # o[j]}

\* direct/executor.go:140: "--key", value appended for each key visited
ArgsInOrder(params, o) ==
    [i \in 1..(2 * Len(o)) |->
        IF i % 2 = 1 THEN <<"--", o[(i + 1) \div 2]>> ELSE ValueStr(params[o[i \div 2]])]

\* direct/executor.go:116-145: the argument lists prepareExecution may return
prepareExecutionArgs(params) == {ArgsInOrder(params, o) : o \in KeyOrders(ArgKeys(params))}

\* ------------------------------- the skill server's tools/call, end to end
\* file names of the scenarios
ASh == <<"a">> \o Sh
DSh == <<"d">> \o Sh
GoneSh == <<"gone">> \o Sh
NTxt == <<"n", ".", "t", "x", "t">>

\* what os.ReadDir returns for a directory holding a.sh, d.sh, main.sh and n.txt, each
\* absent, a file or a directory: the entries sorted by name
Listing(kinds) ==
    LET all == <<[name |-> ASh, k |-> kinds[1]], [name |-> DSh, k |-> kinds[2]],
                 [name |-> MainSh, k |-> kinds[3]], [name |-> NTxt, k |-> kinds[4]]>>
        present == SelectSeq(all, LAMBDA e : e.k # "absent")
    IN [i \in 1..Len(present) |-> [name |-> present[i].name, isDir |-> present[i].k = "dir"]]

\* the scripts directories of the scenarios, and one that cannot be read
Dirs ==
    {[ok |-> TRUE, entries |-> Listing(ks)] :
        ks \in {f \in [1..4 -> {"absent", "file", "dir"}] : f[4] # "dir"}}
      \cup {[ok |-> FALSE, entries |-> <<>>]}

\* one argument, or none
Arg(k, present, value) == IF present THEN [x \in {k} |-> value] ELSE EmptyMap

\* the tools/call arguments of the scenarios: script, action and two more parameters
ExecArguments ==
    {Overlay(Overlay(s, a), Overlay(k, n)) :
        s \in {Arg("script", FALSE, Str(ASh)), Arg("script", TRUE, Str(ASh)),
               Arg("script", TRUE, Str(GoneSh)), Arg("script", TRUE, Num(<<"5">>))},
        a \in {Arg("action", FALSE, Str(<<"d">>)), Arg("action", TRUE, Str(<<"d">>)),
               Arg("action", TRUE, Str(<<"zz">>)), Arg("action", TRUE, Num(<<"5">>))},
        k \in {Arg("k", FALSE, Str(<<>>)), Arg("k", TRUE, Str(<<"v">>)),
               Arg("k", TRUE, Str(<<"-", "x">>)), Arg("k", TRUE, Str(<<>>))},
        n \in {Arg("n", FALSE, Str(<<>>)), Arg("n", TRUE, Str(<<"w">>))}}

NoResult == [Success |-> FALSE, Output |-> "", Error |-> <<>>, ExitCode |-> 0]
NoResp == [kind |-> "none"]

\* the server has read a tools/call request for the tool name with some arguments; the
\* registry holds the skill "kubekey" (kubekey.go:24-36)
InitExec ==
    /\ InitCommon
    /\ codec = NoCodec
    /\ conv = NoConv
    /\ srv = NoSrv
    /\ reg = NoReg
    /\ proc = [c \in Conns |-> "none"]
    /\ loop = [c \in Conns |-> "idle"]
    /\ nconn = 0
    /\ pc = [t \in Procs |-> "off"]
    /\ ret = [t \in Procs |-> "off"]
    /\ \E name \in {"kubekey", "ghost"}, arguments \in ExecArguments, dir \in Dirs :
         run = [pc |-> "request", name |-> name, arguments |-> arguments, dir |-> dir,
                params |-> EmptyMap, script |-> NoPath, argv |-> <<>>, env |-> EmptyMap,
                proc |-> "none", exit |-> 0, waitErr |-> FALSE, timer |-> FALSE,
                result |-> NoResult, err |-> "nil", resp |-> NoResp]

\* server.go:66-73: a handler's error becomes a JSON-RPC error response
RPCError(message) == [kind |-> "error", code |-> -32603, message |-> message]

\* kubekey.go:96-112: the skill is looked up and the arguments become parameters
handleToolsCall ==
    /\ run.pc = "request"
    /\ IF run.name # "kubekey"
       THEN run' = [run EXCEPT !.pc = "answered", !.resp = RPCError(<<"skill not found">>)]
       ELSE run' = [run EXCEPT !.pc = "execute", !.params = ToolCallToSkillParams(run.arguments)]
    /\ UNCHANGED <<connVars, clientVars, pipeVars, threadVars, routerVars, codec, tskill, direct, conv, srv, reg>>

\* direct/executor.go:47-67: the result Execute builds from what Run returned, and the
\* error it returns with it
ExecuteResult(stdout, stderr, exitCode, err) ==
    [result |-> [Success |-> (err = "nil" /\ exitCode = 0),
                 Output |-> stdout,
                 Error |-> IF err # "nil" THEN <<err, stderr>> ELSE <<stderr>>,
                 ExitCode |-> exitCode],
     err |-> IF err # "nil" THEN err ELSE IF exitCode # 0 THEN "script_exited_nonzero" ELSE "nil"]

\* direct/executor.go:25-42: findScript, whose failure is returned with a failed result,
\* then prepareExecution
ExecuteFindScript ==
    /\ run.pc = "execute"
    /\ LET f == findScript(run.dir, run.params) IN
       IF f.err # "nil"
       THEN run' = [run EXCEPT !.pc = "executed",
                               !.result = [Success |-> FALSE, Output |-> "", Error |-> <<f.err>>,
                                           ExitCode |-> -1],
                               !.err = f.err]
       ELSE \E argv \in prepareExecutionArgs(run.params) :
              run' = [run EXCEPT !.pc = "run_start", !.script = f.path, !.argv = argv,
                                 !.env = ParamEnv(run.params)]
    /\ UNCHANGED <<connVars, clientVars, pipeVars, threadVars, routerVars, codec, tskill, direct, conv, srv, reg>>

\* direct/script_runner.go:94-134: Stat, Chmod and cmd.Start; a failure is returned at
\* once, otherwise the script runs and a goroutine waits for it
RunStart ==
    /\ run.pc = "run_start"
    /\ \E ok \in BOOLEAN :
         IF ok
         THEN run' = [run EXCEPT !.pc = "run_select", !.proc = "running"]
         ELSE LET x == ExecuteResult("", "", -1, "failed_to_start") IN
              run' = [run EXCEPT !.pc = "executed", !.result = x.result, !.err = x.err]
    /\ UNCHANGED <<connVars, clientVars, pipeVars, threadVars, routerVars, codec, tskill, direct, conv, srv, reg>>

\* is the script Run started a directory (bash cannot run it)
ScriptIsDir ==
    \E i \in 1..Len(run.dir.entries) :
       run.dir.entries[i].name = run.script /\ run.dir.entries[i].isDir

\* the script exits, or cmd.Wait fails otherwise; the waiting goroutine puts the outcome
\* into the channel done (script_runner.go:131-134)
ScriptExit ==
    /\ run.proc = "running"
    /\ \E x \in {0, 1, 2} :
         /\ (ScriptIsDir => x # 0)
         /\ run' = [run EXCEPT !.proc = "exited", !.exit = IF x = 2 THEN 0 ELSE x,
                               !.waitErr = (x = 2)]
    /\ UNCHANGED <<connVars, clientVars, pipeVars, threadVars, routerVars, codec, tskill, direct, conv, srv, reg>>

\* time.After(r.timeout) delivers (script_runner.go:149)
TimerFire ==
    /\ run.pc = "run_select"
    /\ ~run.timer
    /\ run' = [run EXCEPT !.timer = TRUE]
    /\ UNCHANGED <<connVars, clientVars, pipeVars, threadVars, routerVars, codec, tskill, direct, conv, srv, reg>>

\* a select that only receives from done
RunReadyDoneOnly(r) == {c \in {"done"} : r.proc = "exited"}

\* script_runner.go:136-153: the cases of the select that are ready
RunReady(r) ==
    {c \in {"done", "timeout"} : (c = "done" /\ r.proc = "exited") \/ (c = "timeout" /\ r.timer)}

\* script_runner.go:136-153 and executor.go:45-67: Run returns on the script's end or on
\* the timeout, which kills the process; Execute builds its result
RunSelect ==
    /\ run.pc = "run_select"
    /\ \E c \in RunReady(run) :
         LET x == IF c = "timeout" THEN ExecuteResult("", "", -1, "timeout")
                  ELSE IF run.waitErr THEN ExecuteResult("out", "errtext", -1, "execution_error")
                  ELSE IF run.exit = 0 THEN ExecuteResult("out", "", 0, "nil")
                  ELSE ExecuteResult("", "errtext", run.exit, "nil")
         IN run' = [run EXCEPT !.pc = "executed", !.result = x.result, !.err = x.err,
                               !.proc = IF c = "timeout" /\ run.proc = "running" THEN "killed"
                                        ELSE run.proc]
    /\ UNCHANGED <<connVars, clientVars, pipeVars, threadVars, routerVars, codec, tskill, direct, conv, srv, reg>>

\* mcp_adapter.go:100-125: one text block; for a failed result the error message and the
\* error and exit code as data, and isError set
SkillResultToToolResult(result) ==
    [Content |-> <<[Type |-> "text",
                    Text |-> IF result.Success THEN <<result.Output>>
                             ELSE <<"Error: ">> \o result.Error,
                    Data |-> IF result.Success THEN [present |-> FALSE, error |-> <<>>, exit_code |-> 0]
                             ELSE [present |-> TRUE, error |-> result.Error,
                                   exit_code |-> result.ExitCode]]>>,
     IsError |-> ~result.Success]

\* kubekey.go:115-126 and server.go:66-77: an error from Execute is returned as the
\* handler's error and answered with a JSON-RPC error; otherwise the result is converted
handleToolsCallReturn ==
    /\ run.pc = "executed"
    /\ IF run.err # "nil"
       THEN run' = [run EXCEPT !.pc = "answered",
                               !.resp = RPCError(<<"skill execution failed", run.err>>)]
       ELSE run' = [run EXCEPT !.pc = "answered",
                               !.resp = [kind |-> "result",
                                         result |-> SkillResultToToolResult(run.result)]]
    /\ UNCHANGED <<connVars, clientVars, pipeVars, threadVars, routerVars, codec, tskill, direct, conv, srv, reg>>

NextExec ==
    \/ handleToolsCall
    \/ ExecuteFindScript
    \/ RunStart
    \/ ScriptExit
    \/ TimerFire
    \/ RunSelect
    \/ handleToolsCallReturn

ExecSpec == InitExec /\ [][NextExec]_vars

\* ExecSpec with the scheduling Go gives: the handler's goroutine keeps running and the
\* timer of time.After delivers. The script is under no obligation to exit.
FairExecSpec ==
    /\ ExecSpec
    /\ WF_vars(handleToolsCall \/ ExecuteFindScript \/ RunStart \/ RunSelect \/ handleToolsCallReturn)
    /\ WF_vars(TimerFire)

\* ------------------------------------ the adapter and the resource URIs
\* the text as its characters
Skill == <<"s", "k", "i", "l", "l">>
Prefix == Skill \o <<":", "/", "/">>
Kubekey == <<"k", "u", "b", "e", "k", "e", "y">>
ScriptDir == <<"s", "c", "r", "i", "p", "t">>
CreateClusterSh ==
    <<"c", "r", "e", "a", "t", "e", "_", "c", "l", "u", "s", "t", "e", "r">> \o Sh
SkillMd == Skill \o <<".", "m", "d">>

\* the longest remainder after the prefix that the scenarios enumerate
MaxRest == 4

\* every text of at most n characters over the alphabet
RECURSIVE Texts(_, _)
Texts(alphabet, n) ==
    IF n = 0 THEN {<<>>}
    ELSE LET shorter == Texts(alphabet, n - 1)
         IN shorter \cup {Append(x, c) : x \in shorter, c \in alphabet}

\* the URIs of the resources/read requests of the scenarios: the prefix followed by every
\* short remainder, the URIs of the kubekey skill, and URIs without the prefix
ReadURIs ==
    {Prefix \o rest : rest \in Texts({"/", "a", "b"}, MaxRest)}
      \cup {Prefix \o Kubekey,
            Prefix \o Kubekey \o <<"/">> \o SkillMd,
            Prefix \o Kubekey \o <<"/">> \o ScriptDir \o <<"/">> \o CreateClusterSh,
            Prefix \o <<"/">> \o Kubekey \o <<"/">> \o SkillMd}
      \cup {<<>>, Skill, Skill \o <<":", "/">> \o Kubekey,
            <<"h", "t", "t", "p">> \o <<":", "/", "/">> \o Kubekey \o <<"/">> \o SkillMd,
            Kubekey \o <<"/">> \o SkillMd,
            <<"x">> \o Prefix \o Kubekey}

\* kubekey.go:244-246: len(uri) > 8 && uri[:8] == "skill://"
isSkillURI(uri) == Len(uri) > 8 /\ SubSeq(uri, 1, 8) = Prefix

\* kubekey.go:249-267: idx is the index, from 0, of the first "/" of the text after the
\* prefix and stays 0 when there is none; idx = 0 returns the whole text as the name
parseSkillURI(uri) ==
    LET path == SubSeq(uri, 9, Len(uri))
        slashes == {i \in 0..(Len(path) - 1) : path[i + 1] = "/"}
        idx == IF slashes = {} THEN 0 ELSE CHOOSE i \in slashes : \A j \in slashes : i <= j
    IN IF idx = 0
       THEN [skillName |-> path, resourcePath |-> <<>>]
       ELSE [skillName |-> SubSeq(path, 1, idx),
             resourcePath |-> SubSeq(path, idx + 2, Len(path))]

\* the values of the tools/call arguments of the scenarios
Create == <<"create">>
Delete == <<"delete">>
Bar == <<"bar">>

\* the params objects of the scenarios: any of foo, action and y
NestedParams ==
    {Overlay(Overlay(f, a), y) :
        f \in {Arg("foo", FALSE, Str(Bar)), Arg("foo", TRUE, Str(Bar))},
        a \in {Arg("action", FALSE, Str(Delete)), Arg("action", TRUE, Str(Delete))},
        y \in {Arg("y", FALSE, Num(<<"1">>)), Arg("y", TRUE, Num(<<"1">>))}}

\* the argument maps of the scenarios: action absent, a string or a number; params absent,
\* a string or an object; foo and x at the top level or not
ConvArguments ==
    {Overlay(Overlay(a, p), Overlay(f, x)) :
        a \in {Arg("action", FALSE, Str(Create)), Arg("action", TRUE, Str(Create)),
               Arg("action", TRUE, Num(<<"5">>))},
        p \in {Arg("params", FALSE, Str(Bar)), Arg("params", TRUE, Str(Bar))}
                \cup {Arg("params", TRUE, Obj(n)) : n \in NestedParams},
        f \in {Arg("foo", FALSE, Str(<<"top">>)), Arg("foo", TRUE, Str(<<"top">>))},
        x \in {Arg("x", FALSE, Str(<<"v">>)), Arg("x", TRUE, Str(<<"v">>))}}

\* the scripts directories of the listed skills: one that cannot be read, an empty one,
\* one with two scripts and a text file, and one with a script and a directory named a.sh
ListDirs ==
    {[ok |-> FALSE, entries |-> <<>>],
     [ok |-> TRUE, entries |-> <<>>],
     [ok |-> TRUE, entries |-> Listing(<<"file", "absent", "file", "file">>)],
     [ok |-> TRUE, entries |-> Listing(<<"dir", "file", "absent", "absent">>)]}

\* a skill as ParseSKILL builds it (parser.go:48-58): both paths are set
ListSkill(name, dir) ==
    [Name |-> name, SKILLPath |-> <<"SKILL.md">>, ScriptsPath |-> <<"scripts">>, dir |-> dir]

\* what Registry.List can return: the registered skills in any order (it ranges over a map)
SkillLists ==
    {<<>>}
      \cup {<<ListSkill(n, d)>> : n \in {Kubekey, <<"a">>}, d \in ListDirs}
      \cup {<<ListSkill(ns[1], d1), ListSkill(ns[2], d2)>> :
              ns \in {<<Kubekey, <<"a">>>>, <<<<"a">>, Kubekey>>},
              d1 \in ListDirs, d2 \in ListDirs}

TextMarkdown == "text/markdown"
TextShellscript == "text/x-shellscript"

\* mcp_adapter.go:128-135: the resource skill://<name>
SkillToResource(sk) == [URI |-> Prefix \o sk.Name, MimeType |-> TextMarkdown]

\* mcp_adapter.go:138-146
SkillsToResources(skills) == [i \in 1..Len(skills) |-> SkillToResource(skills[i])]

\* kubekey.go:137-144: the resource skill://<name>/skill.md of a skill with a descriptor path
DocResources(sk) ==
    IF sk.SKILLPath # <<>>
    THEN <<[URI |-> Prefix \o sk.Name \o <<"/">> \o SkillMd, MimeType |-> TextMarkdown]>>
    ELSE <<>>

\* kubekey.go:147-161: one resource skill://<name>/script/<file> for each entry of the
\* scripts directory that is no directory and ends in .sh; none when it cannot be read
ScriptResources(sk) ==
    IF sk.ScriptsPath # <<>> /\ sk.dir.ok
    THEN LET files == SelectSeq(sk.dir.entries, IsScriptFile)
         IN [i \in 1..Len(files) |->
               [URI |-> Prefix \o sk.Name \o <<"/">> \o ScriptDir \o <<"/">> \o files[i].name,
                MimeType |-> TextShellscript]]
    ELSE <<>>

\* kubekey.go:135-162: the resources added skill by skill
RECURSIVE SkillSpecificResources(_)
SkillSpecificResources(skills) ==
    IF skills = <<>> THEN <<>>
    ELSE DocResources(Head(skills)) \o ScriptResources(Head(skills))
           \o SkillSpecificResources(Tail(skills))

\* the execution results of the scenarios: successful or not, with and without output,
\* error text and exit code, in every combination
ExecutionResults ==
    {[Success |-> ok, Output |-> o, Error |-> e, ExitCode |-> x] :
        ok \in BOOLEAN, o \in {"", "out"}, e \in {<<>>, <<"boom">>}, x \in {0, 1}}

\* router.go:173-181: the texts of the blocks of type text, each followed by a line break
RECURSIVE TextLines(_)
TextLines(content) ==
    IF content = <<>> THEN <<>>
    ELSE (IF Head(content).Type = "text" THEN Head(content).Text \o <<"\n">> ELSE <<>>)
           \o TextLines(Tail(content))

\* router.go:167-184 with the text always put into Output
convertMCPResultToOutput(result) ==
    [Success |-> ~result.IsError, Output |-> TextLines(result.Content), Error |-> <<>>]

\* router.go:167-184: Success is the negation of IsError; the text goes to Output of a
\* successful result and to Error of a failed one
convertMCPResult(result) ==
    LET success == ~result.IsError
    IN [Success |-> success,
        Output |-> IF success THEN TextLines(result.Content) ELSE <<>>,
        Error |-> IF success THEN <<>> ELSE TextLines(result.Content)]

\* a tools/call whose arguments are about to be converted, a resources/read whose URI
\* is about to be parsed, a resources/list over the registered skills, or an execution
\* result about to be converted to a tool result and back
InitConv ==
    /\ InitCommon
    /\ codec = NoCodec
    /\ run = NoRun
    /\ srv = NoSrv
    /\ reg = NoReg
    /\ proc = [c \in Conns |-> "none"]
    /\ loop = [c \in Conns |-> "idle"]
    /\ nconn = 0
    /\ pc = [t \in Procs |-> "off"]
    /\ ret = [t \in Procs |-> "off"]
    /\ \/ \E arguments \in ConvArguments :
            conv = [NoConv EXCEPT !.stage = "request", !.kind = "tools/call",
                                  !.arguments = arguments]
       \/ \E uri \in ReadURIs :
            conv = [NoConv EXCEPT !.stage = "request", !.kind = "resources/read",
                                  !.uri = uri]
       \/ \E skills \in SkillLists :
            conv = [NoConv EXCEPT !.stage = "request", !.kind = "resources/list",
                                  !.skills = skills]
       \/ \E r \in ExecutionResults :
            conv = [NoConv EXCEPT !.stage = "request", !.kind = "result", !.result = r]

\* kubekey.go:109-112: the conversion of the arguments; its error is always nil
ConvertToolCall ==
    /\ conv.stage = "request"
    /\ conv.kind = "tools/call"
    /\ conv' = [conv EXCEPT !.stage = "converted",
                            !.params = ToolCallToSkillParams(conv.arguments),
                            !.err = "nil"]
    /\ UNCHANGED <<connVars, clientVars, pipeVars, threadVars, routerVars, codec, tskill, direct, run, srv, reg>>

\* kubekey.go:183-195: the URI is checked and parsed and the skill is looked up in the
\* registry, which holds the skill "kubekey"
handleResourcesRead ==
    /\ conv.stage = "request"
    /\ conv.kind = "resources/read"
    /\ IF ~isSkillURI(conv.uri)
       THEN conv' = [conv EXCEPT !.stage = "rejected", !.err = "invalid skill URI"]
       ELSE LET parsed == parseSkillURI(conv.uri)
            IN conv' = [conv EXCEPT !.stage = "parsed",
                                    !.skillName = parsed.skillName,
                                    !.resourcePath = parsed.resourcePath,
                                    !.err = IF parsed.skillName = Kubekey THEN "nil"
                                            ELSE "skill not found"]
    /\ UNCHANGED <<connVars, clientVars, pipeVars, threadVars, routerVars, codec, tskill, direct, run, srv, reg>>

\* kubekey.go:130-167: the resources of SkillsToResources, then the documentation and
\* the scripts of each skill
handleResourcesList ==
    /\ conv.stage = "request"
    /\ conv.kind = "resources/list"
    /\ conv' = [conv EXCEPT !.stage = "listed",
                            !.resources = SkillsToResources(conv.skills)
                                            \o SkillSpecificResources(conv.skills)]
    /\ UNCHANGED <<connVars, clientVars, pipeVars, threadVars, routerVars, codec, tskill, direct, run, srv, reg>>

\* filepath.Dir of a resource path: "." for a path without a separator, else the part
\* before the last separator (the paths of the scenarios hold no empty, "." or ".."
\* element, so Clean changes nothing)
FilepathDir(path) ==
    LET slashes == {i \in 1..Len(path) : path[i] = "/"}
    IN IF slashes = {} THEN <<".">>
       ELSE SubSeq(path, 1, (CHOOSE i \in slashes : \A j \in slashes : j <= i) - 1)

\* kubekey.go:200-232: the switch over the resource path
ResourceType(resourcePath) ==
    IF resourcePath = SkillMd THEN "skill.md"
    ELSE IF FilepathDir(resourcePath) = ScriptDir THEN "script"
    ELSE IF FilepathDir(resourcePath) = <<"c", "o", "n", "f", "i", "g">> THEN "config"
    ELSE "unknown"

\* kubekey.go:170-241: a resources/read for one of the URIs that resources/list has just
\* returned, against the same registry; the file named by a recognised path is read, which
\* may fail
handleResourcesReadListed ==
    /\ conv.stage = "listed"
    /\ \E k \in 1..Len(conv.resources), readable \in BOOLEAN :
         LET uri == conv.resources[k].URI
             parsed == parseSkillURI(uri)
             names == {conv.skills[i].Name : i \in 1..Len(conv.skills)}
         IN IF ~isSkillURI(uri)
            THEN conv' = [conv EXCEPT !.stage = "read", !.uri = uri, !.err = "invalid skill URI"]
            ELSE conv' = [conv EXCEPT
                            !.stage = "read", !.uri = uri,
                            !.skillName = parsed.skillName,
                            !.resourcePath = parsed.resourcePath,
                            !.err = IF parsed.skillName \notin names THEN "skill not found"
                                    ELSE IF ResourceType(parsed.resourcePath) = "unknown"
                                    THEN "unknown resource type"
                                    ELSE IF readable THEN "nil" ELSE "failed to read"]
    /\ UNCHANGED <<connVars, clientVars, pipeVars, threadVars, routerVars, codec, tskill, direct, run, srv, reg>>

\* mcp_adapter.go:100-125: the execution result becomes a tool result
ConvertResult ==
    /\ conv.stage = "request"
    /\ conv.kind = "result"
    /\ conv' = [conv EXCEPT !.stage = "tool", !.tool = SkillResultToToolResult(conv.result)]
    /\ UNCHANGED <<connVars, clientVars, pipeVars, threadVars, routerVars, codec, tskill, direct, run, srv, reg>>

\* router.go:167-184: the tool result becomes an execution result again
ConvertBack ==
    /\ conv.stage = "tool"
    /\ conv' = [conv EXCEPT !.stage = "back", !.back = convertMCPResult(conv.tool)]
    /\ UNCHANGED <<connVars, clientVars, pipeVars, threadVars, routerVars, codec, tskill, direct, run, srv, reg>>

NextConv ==
    \/ ConvertToolCall
    \/ handleResourcesRead
    \/ handleResourcesList
    \/ handleResourcesReadListed
    \/ ConvertResult
    \/ ConvertBack

ConvSpec == InitConv /\ [][NextConv]_vars

\* ------------------------------------------- Server.Serve and its dispatch
\* protocol.go:238-245
ErrCodeParseError == -32700
ErrCodeMethodNotFound == -32601
ErrCodeInvalidParams == -32602
ErrCodeInternalError == -32603

\* kubekey.go:43-52: the server's name, version and declared capabilities
ServerName == "kubekey-mcp-server"
ServerVersion == "1.0.0"
ServerCapabilities == [tools |-> TRUE, resources |-> TRUE, prompts |-> FALSE]
\* server.go:92
ProtocolVersion == "2024-11-05"

\* kubekey.go:68-80: the methods the skill server registers handlers for
KubeKeyHandlers == {"tools/list", "tools/call", "resources/list", "resources/read"}

\* results as they stand in a response: none, a handler's result, or the handshake's
NoResultJSON == [kind |-> "none"]
HandlerResult == [kind |-> "result"]
\* a handler's result that json.Marshal cannot encode
Unmarshalable == [kind |-> "unmarshalable"]
InitializeResult ==
    [kind |-> "initialize", protocolVersion |-> ProtocolVersion,
     capabilities |-> ServerCapabilities, name |-> ServerName, version |-> ServerVersion]

\* what a handler can return: a result, or one of two errors
HandlerOutcomes ==
    {[result |-> HandlerResult, err |-> "nil"],
     [result |-> Unmarshalable, err |-> "nil"],
     [result |-> NoResultJSON, err |-> "skill not found"],
     [result |-> NoResultJSON, err |-> "skill execution failed"]}

\* the params of the requests of the scenarios: absent, not an object, an object without
\* a protocol version, and the initialize parameters with the server's version or another
InitializeVersions == {"v:2024-11-05", "v:1.0"}
ParamsDecodable(params) == params \in InitializeVersions \cup {"p"}

\* fmt.Sprintf("Method not found: %s", req.Method)
MethodNotFoundMessage(method) ==
    CASE method = "nosuch" -> "Method not found: nosuch"
      [] method = "initialized" -> "Method not found: initialized"
      [] method = "tools/list" -> "Method not found: tools/list"
      [] method = "tools/call" -> "Method not found: tools/call"
      [] OTHER -> "Method not found"

NewJSONRPCError(code, message) == [code |-> code, message |-> message]

NoReq == [id |-> NilID, method |-> "none", params |-> "none"]
NoResponse == [id |-> NilID, result |-> NoResultJSON, error |-> NoError]

\* protocol.go:210-227: the response and the error of marshalling the result
NewJSONRPCResponse(id, result, error) ==
    IF error # NoError
    THEN [resp |-> [id |-> id, result |-> NoResultJSON, error |-> error], err |-> "nil"]
    ELSE IF result = Unmarshalable
    THEN [resp |-> NoResponse, err |-> "failed to marshal result"]
    ELSE [resp |-> [id |-> id, result |-> result, error |-> NoError], err |-> "nil"]

\* server.go:81-101: the parameters are decoded and the version they ask for is not looked at
handleInitialize(req) ==
    IF ~ParamsDecodable(req.params)
    THEN NewJSONRPCResponse(req.id, NoResultJSON,
                            NewJSONRPCError(ErrCodeInvalidParams, "Invalid initialize parameters"))
    ELSE NewJSONRPCResponse(req.id, InitializeResult, NoError)

\* server.go:56 with every method taken as registered
ExistsAlways(handlers, method) == TRUE

\* server.go:55-57: handler, exists := s.handlers[req.Method]
Exists(handlers, method) == method \in handlers

\* server.go:69-75 with a fixed message in place of the handler's
HandlerErrorGeneric(id, message) ==
    NewJSONRPCResponse(id, NoResultJSON, NewJSONRPCError(ErrCodeInternalError, "Internal error"))

\* server.go:69-75: the handler's error as an internal-error response
HandlerError(id, message) ==
    NewJSONRPCResponse(id, NoResultJSON, NewJSONRPCError(ErrCodeInternalError, message))

\* server.go:48-78 with the look at MethodInitialize after the lookup of the handler
HandleRequestDispatchFirst(handlers, req, returned) ==
    IF Exists(handlers, req.method)
    THEN [r |-> IF returned.err # "nil" THEN HandlerError(req.id, returned.err)
                ELSE NewJSONRPCResponse(req.id, returned.result, NoError),
          called |-> TRUE]
    ELSE IF req.method = "initialize"
    THEN [r |-> handleInitialize(req), called |-> FALSE]
    ELSE [r |-> NewJSONRPCResponse(req.id, NoResultJSON,
                    NewJSONRPCError(ErrCodeMethodNotFound, MethodNotFoundMessage(req.method))),
          called |-> FALSE]

\* server.go:48-78: the response (or the error of building it) for a request, given what
\* the handler returns if it is called, and whether the handler was called
HandleRequest(handlers, req, returned) ==
    IF req.method = "initialize"
    THEN [r |-> handleInitialize(req), called |-> FALSE]
    ELSE IF ~Exists(handlers, req.method)
    THEN [r |-> NewJSONRPCResponse(req.id, NoResultJSON,
                    NewJSONRPCError(ErrCodeMethodNotFound, MethodNotFoundMessage(req.method))),
          called |-> FALSE]
    ELSE [r |-> IF returned.err # "nil" THEN HandlerError(req.id, returned.err)
                ELSE NewJSONRPCResponse(req.id, returned.result, NoError),
          called |-> TRUE]

\* the longest input stream of the scenarios, and the rounds of the loop that the model
\* follows once the decoder keeps returning the same error
MaxStream == 2
MaxSpin == 2

\* the identifiers of the requests of the scenarios: a number and a string
ServeIDs == {JNum(1), JStr(1)}

\* the messages on the server's input: requests with an identifier, notifications (no
\* identifier), a text that is not JSON, and a JSON value that is not a request
ServeMessages ==
    {[kind |-> "request", jid |-> id, method |-> r[1], params |-> r[2]] :
        id \in ServeIDs,
        r \in {<<"initialize", "v:2024-11-05">>, <<"initialize", "v:1.0">>,
               <<"initialize", "bad">>, <<"tools/call", "p">>, <<"tools/list", "none">>,
               <<"nosuch", "none">>}}
      \cup {[kind |-> "request", jid |-> JNull, method |-> m, params |-> "none"] :
              m \in {"initialized", "tools/list"}}
      \cup {[kind |-> k, jid |-> JNull, method |-> "none", params |-> "none"] :
              k \in {"garbage", "wrongshape"}}

\* Serve has been called on a stream that holds some messages and then ends; the server
\* has the skill server's handlers and, in some scenarios, one named initialize
InitServe ==
    /\ InitCommon
    /\ codec = NoCodec
    /\ run = NoRun
    /\ conv = NoConv
    /\ proc = [c \in Conns |-> "none"]
    /\ loop = [c \in Conns |-> "idle"]
    /\ nconn = 0
    /\ pc = [t \in Procs |-> "off"]
    /\ ret = [t \in Procs |-> "off"]
    /\ reg = NoReg
    /\ \E stream \in Texts(ServeMessages, MaxStream),
          handlers \in {KubeKeyHandlers, KubeKeyHandlers \cup {"initialize"}} :
         srv = [pc |-> "top", in |-> stream, read |-> <<>>, decErr |-> FALSE, spin |-> 0,
                req |-> NoReq, resp |-> NoResponse, out |-> <<>>, calls |-> <<>>,
                handlers |-> handlers, ctx |-> FALSE, wopen |-> TRUE, eof |-> TRUE]

\* the messages of the scenarios in which the peer may leave the stream open: a request
\* that is served, one for a method that is not registered, and a notification
ServeOpenMessages ==
    {[kind |-> "request", jid |-> JNum(1), method |-> "tools/list", params |-> "none"],
     [kind |-> "request", jid |-> JStr(1), method |-> "nosuch", params |-> "none"],
     [kind |-> "request", jid |-> JNull, method |-> "initialized", params |-> "none"]}

\* Serve has been called on a stream that holds some well-formed messages; after them
\* the peer either closes the stream (eof) or keeps it open and sends nothing more
InitServeOpen ==
    /\ InitCommon
    /\ codec = NoCodec
    /\ run = NoRun
    /\ conv = NoConv
    /\ proc = [c \in Conns |-> "none"]
    /\ loop = [c \in Conns |-> "idle"]
    /\ nconn = 0
    /\ pc = [t \in Procs |-> "off"]
    /\ ret = [t \in Procs |-> "off"]
    /\ reg = NoReg
    /\ \E stream \in Texts(ServeOpenMessages, MaxStream), eof \in BOOLEAN :
         srv = [pc |-> "top", in |-> stream, read |-> <<>>, decErr |-> FALSE, spin |-> 0,
                req |-> NoReq, resp |-> NoResponse, out |-> <<>>, calls |-> <<>>,
                handlers |-> KubeKeyHandlers, ctx |-> FALSE, wopen |-> TRUE, eof |-> eof]

ServeFrame ==
    UNCHANGED <<connVars, clientVars, pipeVars, threadVars, routerVars, codec, tskill, direct, run, conv, reg>>

\* server.go:109-113: the non-blocking look at ctx.Done() at the top of each round
ServeSelect ==
    /\ srv.pc = "top"
    /\ srv' = [srv EXCEPT !.pc = IF srv.ctx THEN "ret_ctx" ELSE "decode"]
    /\ ServeFrame

\* the parse-error response for the message at position pos, written if the writer works
\* (the error of this Encode is dropped, server.go:126)
WriteParseError(pos) ==
    IF srv.wopen
    THEN Append(srv.out,
                [for |-> pos,
                 msg |-> EncodeResponse(NewJSONRPCResponse(NilID, NoResultJSON,
                             NewJSONRPCError(ErrCodeParseError, "Parse error")).resp)])
    ELSE srv.out

\* server.go:115-128: Decode. A json.Decoder keeps a syntax error and returns it again on
\* every later call without reading on; a JSON value of the wrong shape is consumed and
\* reported once; the end of the stream ends Serve; on a stream that is open and holds
\* nothing Decode stays inside its Read.
ServeDecode ==
    /\ srv.pc = "decode"
    /\ IF srv.decErr
       THEN /\ srv.spin < MaxSpin
            /\ srv' = [srv EXCEPT !.pc = "top", !.spin = @ + 1,
                                  !.out = WriteParseError(Len(srv.read))]
       ELSE IF srv.in = <<>>
       THEN /\ srv.eof
            /\ srv' = [srv EXCEPT !.pc = "ret_eof"]
       ELSE LET msg == Head(srv.in) IN
            IF msg.kind = "request"
            THEN srv' = [srv EXCEPT !.pc = "handle", !.in = Tail(@), !.read = Append(@, msg),
                                    !.req = DecodeRequest(msg)]
            ELSE srv' = [srv EXCEPT !.pc = "top", !.in = Tail(@), !.read = Append(@, msg),
                                    !.decErr = (msg.kind = "garbage"),
                                    !.out = WriteParseError(Len(srv.read) + 1)]
    /\ ServeFrame

\* server.go:130-138: HandleRequest, and an internal-error response when it returns an error
ServeHandle ==
    /\ srv.pc = "handle"
    /\ \E returned \in HandlerOutcomes :
         LET h == HandleRequest(srv.handlers, srv.req, returned)
             resp == IF h.r.err # "nil" THEN HandlerError(srv.req.id, h.r.err).resp ELSE h.r.resp
         IN srv' = [srv EXCEPT !.pc = "send", !.resp = resp,
                               !.calls = IF h.called
                                         THEN Append(@, [for |-> Len(srv.read),
                                                         method |-> srv.req.method,
                                                         err |-> returned.err])
                                         ELSE @]
    /\ ServeFrame

\* server.go:140-143 with the responses that carry an error not written
ServeSendDropErrors ==
    /\ srv.pc = "send"
    /\ IF ~srv.wopen
       THEN srv' = [srv EXCEPT !.pc = "ret_err"]
       ELSE srv' = [srv EXCEPT !.pc = "top",
                               !.out = IF srv.resp.error # NoError THEN @
                                       ELSE Append(@, [for |-> Len(srv.read),
                                                       msg |-> EncodeResponse(srv.resp)])]
    /\ ServeFrame

\* server.go:140-143: the response is written; a failed write ends Serve
ServeSend ==
    /\ srv.pc = "send"
    /\ IF ~srv.wopen
       THEN srv' = [srv EXCEPT !.pc = "ret_err"]
       ELSE srv' = [srv EXCEPT !.pc = "top",
                               !.out = Append(@, [for |-> Len(srv.read),
                                                  msg |-> EncodeResponse(srv.resp)])]
    /\ ServeFrame

ServeRunning == srv.pc \in {"top", "decode", "handle", "send"}

\* the context Serve was called with is cancelled
ServeCtxCancel ==
    /\ ServeRunning
    /\ ~srv.ctx
    /\ srv' = [srv EXCEPT !.ctx = TRUE]
    /\ ServeFrame

\* the peer closes its end of the server's output: writes fail from now on
ServeWriterClosed ==
    /\ ServeRunning
    /\ srv.wopen
    /\ srv' = [srv EXCEPT !.wopen = FALSE]
    /\ ServeFrame

ServeLoop == ServeSelect \/ ServeDecode \/ ServeHandle \/ ServeSend

NextServe == ServeLoop \/ ServeCtxCancel \/ ServeWriterClosed

ServeSpec == InitServe /\ [][NextServe]_vars

\* ServeSpec with the goroutine that runs Serve scheduled; nothing obliges the context to
\* be cancelled or the peer to close the stream
FairServeSpec == ServeSpec /\ WF_vars(ServeLoop)

\* Serve on a stream the peer may leave open, with the goroutine that runs Serve scheduled
ServeOpenSpec == InitServeOpen /\ [][NextServe]_vars

FairServeOpenSpec == ServeOpenSpec /\ WF_vars(ServeLoop)

\* ------------------------------------------------------------- Registry
\* the goroutines that call the Registry
RegGoroutines == {"g1", "g2"}

\* successful Register calls followed in one scenario
MaxRegistered == 3

\* the skills handed to Register: nil, skills without a name, and two descriptors for
\* each of two names
NilSkill == [isNil |-> TRUE, name |-> "", rev |-> 0]
SkillPtr(name, rev) == [isNil |-> FALSE, name |-> name, rev |-> rev]
RegSkills == {NilSkill} \cup {SkillPtr(n, v) : n \in {"", "a", "b"}, v \in {1, 2}}

RegResult(err, skill, n) == [err |-> err, skill |-> skill, n |-> n]
NoRegResult == RegResult("none", NilSkill, 0)

\* NewRegistry (registry.go:15-19): an empty map; no goroutine is inside an operation
InitRegistry ==
    /\ InitCommon
    /\ codec = NoCodec
    /\ run = NoRun
    /\ conv = NoConv
    /\ srv = NoSrv
    /\ proc = [c \in Conns |-> "none"]
    /\ loop = [c \in Conns |-> "idle"]
    /\ nconn = 0
    /\ pc = [t \in Procs |-> "off"]
    /\ ret = [t \in Procs |-> "off"]
    /\ reg = [skills |-> <<>>, w |-> "free", r |-> {},
              pc |-> [g \in RegGoroutines |-> "idle"],
              op |-> [g \in RegGoroutines |-> "none"],
              arg |-> [g \in RegGoroutines |-> NilSkill],
              res |-> [g \in RegGoroutines |-> NoRegResult],
              log |-> <<>>]

RegFrame ==
    UNCHANGED <<connVars, clientVars, pipeVars, threadVars, routerVars, codec, tskill, direct, run, conv, srv>>

\* the Register calls that have passed the checks and have not stored yet
Registering == {g \in RegGoroutines : reg.op[g] = "Register" /\ reg.pc[g] \in {"lock", "store"}}

\* registry.go:22-31: Register returns an error for a nil skill and for an empty name
\* before it touches the lock; otherwise it goes for r.mu.Lock()
Register(g, skill) ==
    /\ reg.pc[g] = "idle"
    /\ Len(reg.log) + Cardinality(Registering) < MaxRegistered
    /\ IF skill.isNil
       THEN reg' = [reg EXCEPT !.op[g] = "Register", !.arg[g] = skill,
                               !.res[g] = RegResult("cannot register nil skill", NilSkill, 0)]
       ELSE IF skill.name = ""
       THEN reg' = [reg EXCEPT !.op[g] = "Register", !.arg[g] = skill,
                               !.res[g] = RegResult("skill name cannot be empty", NilSkill, 0)]
       ELSE reg' = [reg EXCEPT !.op[g] = "Register", !.arg[g] = skill, !.res[g] = NoRegResult,
                               !.pc[g] = "lock"]
    /\ RegFrame

\* sync.RWMutex.Lock: taken when no writer and no reader holds the mutex
RegistryLock(g) ==
    /\ reg.pc[g] = "lock"
    /\ reg.w = "free" /\ reg.r = {}
    /\ reg' = [reg EXCEPT !.w = g, !.pc[g] = "store"]
    /\ RegFrame

\* r.skills[skill.Name] = skill with a name that is already there left alone
PutSkillKeepFirst(skills, skill) ==
    [n \in DOMAIN skills \cup {skill.name} |-> IF n \in DOMAIN skills THEN skills[n] ELSE skill]

\* r.skills[skill.Name] = skill
PutSkill(skills, skill) ==
    [n \in DOMAIN skills \cup {skill.name} |-> IF n = skill.name THEN skill ELSE skills[n]]

\* registry.go:34-35: the skill is stored under its name, the mutex released, nil returned
RegisterStore(g) ==
    /\ reg.pc[g] = "store"
    /\ reg' = [reg EXCEPT !.skills = PutSkill(@, reg.arg[g]),
                          !.log = Append(@, reg.arg[g]),
                          !.w = "free", !.pc[g] = "idle",
                          !.res[g] = RegResult("nil", NilSkill, 0)]
    /\ RegFrame

\* registry.go:39-41 and 87-89: Get and Count go for r.mu.RLock()
RegistryRead(g, op, name) ==
    /\ reg.pc[g] = "idle"
    /\ reg' = [reg EXCEPT !.op[g] = op, !.arg[g] = SkillPtr(name, 0), !.res[g] = NoRegResult,
                          !.pc[g] = "rlock"]
    /\ RegFrame

\* sync.RWMutex.RLock: taken when no writer holds the mutex
RegistryRLock(g) ==
    /\ reg.pc[g] = "rlock"
    /\ reg.w = "free"
    /\ reg' = [reg EXCEPT !.r = @ \cup {g}, !.pc[g] = "read"]
    /\ RegFrame

\* registry.go:43-48: the skill stored under the name, or `skill not found`
Get(skills, name) ==
    IF name \in DOMAIN skills THEN RegResult("nil", skills[name], 0)
    ELSE RegResult("skill not found", NilSkill, 0)

\* registry.go:91: len(r.skills)
Count(skills) == RegResult("nil", NilSkill, Cardinality(DOMAIN skills))

\* the body of Get or Count under the read lock, and the release of the lock
RegistryReturn(g) ==
    /\ reg.pc[g] = "read"
    /\ reg' = [reg EXCEPT !.res[g] = IF reg.op[g] = "Get" THEN Get(reg.skills, reg.arg[g].name)
                                     ELSE Count(reg.skills),
                          !.r = @ \ {g}, !.pc[g] = "idle"]
    /\ RegFrame

NextRegistry ==
    \/ \E g \in RegGoroutines, skill \in RegSkills : Register(g, skill)
    \/ \E g \in RegGoroutines : RegistryLock(g)
    \/ \E g \in RegGoroutines : RegisterStore(g)
    \/ \E g \in RegGoroutines, op \in {"Get", "Count"}, name \in {"a", "b"} : RegistryRead(g, op, name)
    \/ \E g \in RegGoroutines : RegistryRLock(g)
    \/ \E g \in RegGoroutines : RegistryReturn(g)

RegistrySpec == InitRegistry /\ [][NextRegistry]_vars

\* ------------------------------------------------------------- the claims
\* the read loop has taken the answer to goroutine t's request off the child's stdout
ResponseTaken(t) ==
    LET c == tconn[t] IN
    /\ \E i \in answered[c] \ {0} : wire[c][i].jid = EncodeID(tid[t])
    /\ \A k \in 1..Len(out[c]) : out[c][k].jid # EncodeID(tid[t])

\* the read loop of Connection c takes a response off the child's stdout in this step
TakesResponse(c) ==
    /\ loop[c] = "decode"
    /\ out[c] # <<>>
    /\ out'[c] = Tail(out[c])
    /\ Head(out[c]).kind = "response"

\* C1: a Call observes at most one outcome (response, cancellation or failure), never
\* two of them; a Call that has returned has observed exactly one, and a Call still in
\* progress none.
C1_ExactlyOneOutcome ==
    \A t \in Callers :
      /\ Len(outcome[t]) <= 1
      /\ pc[t] = "caller_ret" => Len(outcome[t]) = 1
      /\ pc[t] \in CallPCs \cup {"idle"} => outcome[t] = <<>>

\* C1 witness: a Call has returned with the cancellation as its one outcome although the
\* child answered its request and the read loop took that answer; another has returned
\* with a send failure.
C1_Witness ==
    \E t, u \in Callers :
      /\ pc[t] = "caller_ret" /\ outcome[t] = <<"cancelled">> /\ ResponseTaken(t)
      /\ pc[u] = "caller_ret" /\ outcome[u] = <<"failure">>

\* C2: a caller that waits for the response to its request is handed that response when
\* the read loop takes it: once the answer to a waiting caller's request has been taken
\* off the child's stdout, it is in that caller's channel.
C2_EachCallerGetsItsResponse ==
    \A t \in Callers : (pc[t] = "call_wait" /\ ResponseTaken(t)) => chan[t] # <<>>

\* C3: once the read loop has ended on end-of-stream or on a read or decode failure, a
\* Call that is waiting returns, without its caller's context having to expire.
C3_PendingCallsFailWhenLoopEnds ==
    \A t \in Callers :
      (pc[t] = "call_wait" /\ loop[tconn[t]] \in {"ret_eof", "ret_err"})
        ~> (pc[t] = "caller_ret" \/ ctxC[t])

\* C4: a Call that returned on its context has removed its identifier from the pending
\* table and returned the context's error; when the answer to such a Call arrives later,
\* the read loop hands it to nobody, leaves the table alone and goes on to its next round.
C4_CancelRemovesAndLateResponseDropped ==
    /\ [](\A t \in Callers :
            (pc[t] = "caller_ret" /\ outcome[t] = <<"cancelled">>)
              => (tid[t] \notin DOMAIN requests[tconn[t]] /\ terr[t] = "ctx_err"))
    /\ [][\A c \in Conns :
            (TakesResponse(c) /\ \E t \in Callers :
                                   /\ tconn[t] = c /\ pc[t] = "caller_ret"
                                   /\ outcome[t] = <<"cancelled">>
                                   /\ EncodeID(tid[t]) = Head(out[c]).jid)
              => (chan' = chan /\ requests' = requests /\ loop'[c] = "select")]_vars

\* C4 witness: a Call has returned cancelled, its identifier is gone from the table, the
\* late answer has been taken, and the read loop is still running.
C4_Witness ==
    \E t \in Callers :
      /\ pc[t] = "caller_ret" /\ outcome[t] = <<"cancelled">> /\ ResponseTaken(t)
      /\ tid[t] \notin DOMAIN requests[tconn[t]]
      /\ loop[tconn[t]] \in {"select", "decode"}

\* C5: an envelope that has been encoded and decoded equals the original.
C5_RoundTrip == codec.stage = "decoded" => codec.back = codec.orig

\* C6: the requests on a Connection's wire stand in the order in which their identifiers
\* were allocated.
C6_WritesInCallOrder ==
    \A c \in Conns : \A i, j \in 1..Len(wire[c]) :
      i < j => wire[c][i].jid.v < wire[c][j].jid.v

\* the Connections held by the Router's cache or the manager's maps
Stored ==
    {mcpClients[x] : x \in DOMAIN mcpClients} \cup {connections[x] : x \in DOMAIN connections}
        \cup {clients[x] : x \in DOMAIN clients}

\* C7: when getMCPClient or Connect has returned an initialize failure, its Connection
\* is stopped (context cancelled, pipes closed, process killed and waited for, read loop
\* returned, Stop returned) and is stored nowhere; and a process that runs belongs to a
\* call still in progress or to a stored Connection.
C7_InitFailureStopsConnection ==
    /\ \A t \in Callers :
         (pc[t] = "r_ret" /\ terr[t] = "init_failed") =>
           LET c == tconn[t] IN
           /\ ctxDone[c] /\ ~stdinOpen[c] /\ ~stdoutOpen[c]
           /\ proc[c] \in {"killed", "reaped"}
           /\ loop[c] \in {"ret_ctx", "ret_eof", "ret_err"}
           /\ stopped[c] >= 1
           /\ c \notin Stored
    /\ \A c \in Conns :
         proc[c] = "running" =>
           (c \in Stored \/ \E t \in Callers : tconn[t] = c /\ pc[t] # "r_ret")

\* C7 witness: one goroutine has been returned the initialize failure by getMCPClient
\* and another by Connect.
C7_Witness ==
    \E t, u \in Callers :
      /\ pc[t] = "r_ret" /\ terr[t] = "init_failed" /\ ret[t] = "r_initfail"
      /\ pc[u] = "r_ret" /\ terr[u] = "init_failed" /\ ret[u] = "m_initfail"

\* what can be seen of Connection 1
ConnState == <<proc[1], ctxDone[1], stdinOpen[1], stdoutOpen[1], loop[1], kills[1]>>

\* C8: every step of a Stop that is called after a Stop has returned leaves the
\* Connection as it is, and that Stop returns no error.
C8_StopIdempotent ==
    [][(pc[Owner] \in {"stop_cancel", "stop_close", "stop_join"} /\ stopped[1] >= 1
          /\ pc'[Owner] # pc[Owner])
        => (ConnState' = ConnState
            /\ (pc'[Owner] \in {"stop_join", "own_stopped"} => sret'[Owner] = "nil"))]_vars

\* C8 witness: Stop has returned twice on a Connection whose process the first Stop killed.
C8_Witness == stopped[1] = 2 /\ kills[1] = 1 /\ proc[1] = "killed" /\ sret[Owner] = "nil"

\* C9: when Stop has returned the read loop has returned, and from then on the loop
\* takes no message and no response channel is given anything.
C9_StopJoinsReadLoop ==
    /\ [](\A c \in Conns : stopped[c] >= 1 => loop[c] \in {"idle", "ret_ctx", "ret_eof", "ret_err"})
    /\ [][\A c \in Conns : stopped[c] >= 1 =>
            (loop'[c] = loop[c] /\ out'[c] = out[c]
             /\ \A t \in Callers : tconn[t] = c => chan'[t] = chan[t])]_vars

\* C9 witness: Stop has returned on a Connection whose read loop was running and ended on
\* the closed pipe, while a caller is still waiting and an answer is left unread.
C9_Witness ==
    /\ stopped[1] >= 1 /\ loop[1] = "ret_err" /\ out[1] # <<>>
    /\ \E t \in Callers : pc[t] = "call_wait"

\* the goroutines whose Router.Execute for server s has a child process running
RouterRunning(s) ==
    {t \in Callers : /\ tsrv[t] = s
                     /\ ret[t] \in {"r_started", "r_init", "r_initfail"}
                     /\ pc[t] # "conn_start"
                     /\ proc[tconn[t]] = "running"}

\* C10: the forwarded Execute calls that name one server have at most one child process
\* running for it.
C10_OneProcessPerServer == \A s \in ServerNames : Cardinality(RouterRunning(s)) <= 1

\* the skills configured for forwarded execution
Forwarded(k) == k \in DOMAIN SkillConfigs /\ SkillConfigs[k].mode = "mcp"

\* C11: a forwarded Execute that has begun returns to its caller, whether or not the
\* child of its server ever answers.
C11_ForwardedExecuteReturns ==
    \A t \in Callers : (Forwarded(tskill[t]) /\ pc[t] # "r_idle") ~> (pc[t] = "r_ret")

\* the tools/call requests written to any child
ToolCallsWritten ==
    {x \in Conns \X (1..(2 * NumCallers + 2)) :
        x[2] <= Len(wire[x[1]]) /\ wire[x[1]][x[2]].method = "tools/call"}

\* the goroutines that have begun an operation that may create a Connection: a forwarded
\* Execute, or Connect
MayConnect == {t \in Callers : pc[t] # "r_idle" /\ (tskill[t] = "none" \/ Forwarded(tskill[t]))}

Executed == run.name = "kubekey" /\ run.pc \in {"executed", "answered"}

\* the execution errors: no script was found, the script was killed on the timeout, or it
\* exited with a code other than 0
ExecutionError ==
    /\ Executed
    /\ \/ run.script = NoPath
       \/ run.proc = "killed"
       \/ run.proc = "exited" /\ ~run.waitErr /\ run.exit # 0

\* C14: a tools/call whose script failed is answered with a result, not with a JSON-RPC
\* error: one text block with the error message and the error and exit code as data, and
\* isError set.
C14_ScriptFailureIsToolResult ==
    (ExecutionError /\ run.pc = "answered") =>
      /\ run.resp.kind = "result"
      /\ run.resp.result.IsError
      /\ Len(run.resp.result.Content) = 1
      /\ run.resp.result.Content[1].Type = "text"
      /\ run.resp.result.Content[1].Data.present

\* C15: for an execution error Execute returns a result with Success false that carries
\* the error text, and returns no error value.
C15_ExecutionErrorsCaptured ==
    ExecutionError => (~run.result.Success /\ run.result.Error # <<>> /\ run.err = "nil")

\* C16: Execute never returns leaving the script running; when it returns having killed
\* the script, the result is a failure that reports the timeout; and a Run that waits for
\* its script always returns, whether or not the script exits.
C16_TimeoutKillsAndReturns ==
    /\ [](Executed => run.proc # "running")
    /\ [](Executed /\ run.proc = "killed" =>
            (~run.result.Success /\ run.result.Error[1] = "timeout" /\ run.result.ExitCode = -1))
    /\ (run.pc = "run_select") ~> (run.pc = "answered")

\* C16 witness: Execute has returned the timeout failure for a script that was still
\* running when the timer fired, and the script has been killed.
C16_Witness ==
    /\ Executed /\ run.proc = "killed" /\ run.timer
    /\ ~run.result.Success /\ run.result.Error[1] = "timeout"

\* positions of the directory's entries that are files with the extension .sh
ScriptFileIdx ==
    {i \in 1..Len(run.dir.entries) :
        ~run.dir.entries[i].isDir /\ Ext(run.dir.entries[i].name) = Sh}

\* is there an entry of this name in the directory
Present(name) == \E i \in 1..Len(run.dir.entries) : run.dir.entries[i].name = name

HasScriptParam == IsString(run.params, "script")

ActionApplies ==
    /\ ~HasScriptParam
    /\ IsString(run.params, "action")
    /\ Present(run.params["action"].v \o Sh)

MainApplies ==
    /\ ~HasScriptParam /\ ~ActionApplies
    /\ \E i \in ScriptFileIdx : run.dir.entries[i].name = MainSh

FirstApplies == ~HasScriptParam /\ ~ActionApplies /\ ~MainApplies /\ ScriptFileIdx # {}

\* C17: the script Execute runs is the one the script parameter names; without it,
\* <action>.sh when it is present; without that, the script main.sh; without that, the
\* first script file in directory order; and nothing is run when none of these applies.
C17_ScriptSelectionPriority ==
    (run.name = "kubekey" /\ run.pc \notin {"request", "execute"}) =>
      /\ HasScriptParam =>
           run.script = (IF Present(run.params["script"].v) THEN run.params["script"].v ELSE NoPath)
      /\ ActionApplies => run.script = run.params["action"].v \o Sh
      /\ MainApplies => run.script = MainSh
      /\ FirstApplies =>
           \E i \in ScriptFileIdx :
              /\ run.script = run.dir.entries[i].name
              /\ \A j \in ScriptFileIdx : i <= j
      /\ (~HasScriptParam /\ ~ActionApplies /\ ~MainApplies /\ ~FirstApplies) =>
           (run.script = NoPath /\ run.err # "nil")

\* C17 witness: with a.sh, d.sh and main.sh all there as script files and no script
\* parameter, the action d has selected d.sh and the tools/call has been answered.
C17_Witness ==
    /\ run.pc = "answered" /\ ~HasScriptParam /\ IsString(run.params, "action")
    /\ \A n \in {ASh, DSh, MainSh} : \E i \in ScriptFileIdx : run.dir.entries[i].name = n
    /\ run.script = DSh

\* does the text begin with "-"
BeginsWithDash(text) == Len(text) > 0 /\ text[1] = "-"

\* C18: every parameter other than script and action is in the environment under its key,
\* and its "--key", value pair is in the arguments exactly when the value does not begin
\* with "-".
C18_ParamsAsEnvAndArgs ==
    (run.name = "kubekey" /\ run.script # NoPath) =>
      \A k \in DOMAIN run.params \ {"script", "action"} :
        /\ k \in DOMAIN run.env /\ run.env[k] = run.params[k].v
        /\ IF BeginsWithDash(run.params[k].v)
           THEN \A i \in 1..Len(run.argv) : run.argv[i] # <<"--", k>>
           ELSE \E i \in 1..(Len(run.argv) - 1) :
                  run.argv[i] = <<"--", k>> /\ run.argv[i + 1] = run.params[k].v

\* the nested params object of the arguments, empty when there is none
NestedOf(arguments) ==
    IF "params" \in DOMAIN arguments /\ arguments["params"].t = "object"
    THEN arguments["params"].v
    ELSE EmptyMap

\* the top-level arguments other than action and params
TopLevelOf(arguments) == Restrict(arguments, DOMAIN arguments \ {"action", "params"})

\* C19: ToolCallToSkillParams never fails and, for every argument map, the action field
\* is the parameter action, every key of a nested params object is a parameter (with the
\* nested value unless a top-level argument has the same name), every other top-level
\* argument is a parameter with its value, and nothing else is a parameter; the arguments
\* {action: create, params: {foo: bar}} give exactly {action: create, foo: bar}.
C19_ToolCallToSkillParams ==
    conv.stage = "converted" =>
        LET arguments == conv.arguments
            nested == NestedOf(arguments)
            top == TopLevelOf(arguments)
        IN /\ conv.err = "nil"
           /\ "action" \in DOMAIN arguments =>
                "action" \in DOMAIN conv.params /\ conv.params["action"] = arguments["action"]
           /\ \A k \in DOMAIN nested :
                /\ k \in DOMAIN conv.params
                /\ (k \notin DOMAIN top /\ ~(k = "action" /\ "action" \in DOMAIN arguments))
                     => conv.params[k] = nested[k]
           /\ \A k \in DOMAIN top : k \in DOMAIN conv.params /\ conv.params[k] = top[k]
           /\ DOMAIN conv.params =
                (DOMAIN arguments \cap {"action"}) \cup DOMAIN nested \cup DOMAIN top
           /\ arguments = Overlay(Arg("action", TRUE, Str(Create)),
                                  Arg("params", TRUE, Obj(Arg("foo", TRUE, Str(Bar)))))
                => conv.params = Overlay(Arg("action", TRUE, Str(Create)),
                                         Arg("foo", TRUE, Str(Bar)))

\* C20: a URI without the prefix skill:// is rejected, and an accepted URI is split at
\* the first path separator after the prefix: the skill name holds no separator and the
\* name, a separator if there is one, and the path make up the text after the prefix;
\* skill://kubekey/script/create_cluster.sh gives kubekey and script/create_cluster.sh.
C20_SkillURIParsing ==
    /\ (conv.kind = "resources/read" /\ conv.stage # "request"
          /\ (Len(conv.uri) < Len(Prefix) \/ SubSeq(conv.uri, 1, Len(Prefix)) # Prefix))
         => conv.stage = "rejected"
    /\ conv.stage = "parsed" =>
         LET rest == SubSeq(conv.uri, Len(Prefix) + 1, Len(conv.uri)) IN
         /\ \A i \in 1..Len(conv.skillName) : conv.skillName[i] # "/"
         /\ \/ rest = conv.skillName /\ conv.resourcePath = <<>>
            \/ rest = conv.skillName \o <<"/">> \o conv.resourcePath
         /\ conv.uri = Prefix \o Kubekey \o <<"/">> \o ScriptDir \o <<"/">> \o CreateClusterSh
              => /\ conv.skillName = Kubekey
                 /\ conv.resourcePath = ScriptDir \o <<"/">> \o CreateClusterSh

\* the read loop of Connection c takes a malformed message off the child's stdout in this step
TakesGarbage(c) ==
    /\ loop[c] = "decode"
    /\ out[c] # <<>>
    /\ out'[c] = Tail(out[c])
    /\ Head(out[c]).kind = "garbage"

\* C28: a malformed message on the child's output does not end the session: the round of
\* the read loop that meets it leaves the loop running, so the loop never ends while a
\* response is still to be read on an open stream.
C28_MalformedOutputKeepsSession ==
    /\ [][\A c \in Conns : TakesGarbage(c) => loop'[c] = "select"]_vars
    /\ [](\A c \in Conns :
            (loop[c] = "ret_err" /\ stdoutOpen[c])
              => \A k \in 1..Len(out[c]) : out[c][k].kind # "response")

\* the Calls waiting on Connection c for the response at the head of its output
WaitingFor(c) ==
    {t \in Callers : /\ tconn[t] = c
                     /\ pc[t] = "call_wait"
                     /\ tid[t] \in DOMAIN requests[c]
                     /\ EncodeID(tid[t]) = Head(out[c]).jid}

\* C29: when the read loop takes a response that carries an error and that answers a
\* waiting Call, the Call is handed that response; a Call returns the RPC error only for
\* such a response, and that error differs from the error of a cancellation and from the
\* error of a failed write.
C29_ErrorResponseIsRPCError ==
    /\ [][\A c \in Conns :
            (TakesResponse(c) /\ Head(out[c]).error # NoError)
              => \A t \in WaitingFor(c) :
                   chan'[t] # <<>> /\ Head(chan'[t]).error = Head(out[c]).error]_vars
    /\ [](\A t \in Callers :
            pc[t] = "caller_ret" =>
              /\ outcome[t] = <<"cancelled">> <=> terr[t] = "ctx_err"
              /\ outcome[t] = <<"failure">> <=> terr[t] = "send_failed"
              /\ outcome[t] = <<"response">> <=> terr[t] \in {"rpc_error", "nil"})

\* the Calls on Connection c that have stored their channel and have not returned
InProgress(c) == {t \in Callers : tconn[t] = c /\ pc[t] \in {"call_send", "call_wait"}}

\* C30: the pending table of a Client holds exactly the identifiers of the Calls in
\* progress, each with its own Call's channel: the entry is there before the request is
\* written and until the Call returns, none is left for a Call that has returned, every
\* request on the wire was written under a stored identifier, and each Call takes an
\* identifier greater than every identifier taken before it on its Client.
C30_PendingTableTracksCalls ==
    /\ [](\A c \in Conns :
            /\ DOMAIN requests[c] = {tid[t] : t \in InProgress(c)}
            /\ \A t \in InProgress(c) : requests[c][tid[t]] = t
            /\ \A t \in Callers :
                 (tconn[t] = c /\ pc[t] = "caller_ret") => tid[t] \notin DOMAIN requests[c]
            /\ \A t, u \in Callers :
                 (t # u /\ tconn[t] = c /\ tconn[u] = c /\ tid[t] # NilID /\ tid[u] # NilID)
                   => tid[t] # tid[u])
    /\ [][\A t \in Callers :
            /\ tid'[t] # tid[t] =>
                 /\ nextID'[tconn[t]] > nextID[tconn[t]]
                 /\ \A u \in Callers \ {t} :
                      (tconn[u] = tconn[t] /\ tid[u] # NilID) => tid[u].v < tid'[t].v
            /\ wire'[tconn[t]] # wire[tconn[t]] /\ pc[t] = "call_send" /\ pc'[t] = "call_wait"
                 => tid[t] \in DOMAIN requests[tconn[t]]]_vars

\* C30 witness: one Call waits with its identifier in the table; another, which took its
\* identifier earlier, has returned on its context and has left no entry.
C30_Witness ==
    \E t, u \in Callers :
      /\ t # u /\ tconn[t] = tconn[u]
      /\ pc[t] = "call_wait" /\ tid[t] \in DOMAIN requests[tconn[t]]
      /\ pc[u] = "caller_ret" /\ outcome[u] = <<"cancelled">>
      /\ tid[u] \notin DOMAIN requests[tconn[u]]
      /\ tid[u].v < tid[t].v

\* the positions, in the order read, of the messages Serve has taken off its input
Positions == 1..Len(srv.read)

\* the responses Serve has written for the message at position i
ResponsesFor(i) == {k \in 1..Len(srv.out) : srv.out[k].for = i}

\* Serve is done with the message at position i
Handled(i) ==
    \/ i < Len(srv.read)
    \/ i = Len(srv.read) /\ srv.pc \in {"top", "decode", "ret_ctx", "ret_eof", "ret_err"}

\* Serve returned on the failed write of the response to the message at position i
WriteFailedAt(i) == i = Len(srv.read) /\ srv.pc = "ret_err" /\ ~srv.wopen

IsRequest(i) == srv.read[i].kind = "request"
HasID(i) == srv.read[i].jid # JNull

\* C22 as stated: for every request with an identifier that Serve has read and is done
\* with, exactly one response has been written, and every response written for a request
\* carries that request's identifier.
C22_ExactlyOneResponse ==
    \A i \in Positions :
      (IsRequest(i) /\ HasID(i)) =>
        /\ Handled(i) => Cardinality(ResponsesFor(i)) = 1
        /\ Cardinality(ResponsesFor(i)) <= 1
        /\ \A k \in ResponsesFor(i) : srv.out[k].msg.jid = srv.read[i].jid

\* C22 amended: for every request with an identifier that Serve has read and is done
\* with, exactly one response has been written, or none when the write of the response
\* failed, in which case Serve has returned and that request is the last it read; every
\* response written for a request carries that request's identifier, whatever the method
\* and whatever the handler returned.
C22_OneResponseOrDroppedConnection ==
    \A i \in Positions :
      (IsRequest(i) /\ HasID(i)) =>
        /\ Handled(i) =>
             \/ Cardinality(ResponsesFor(i)) = 1
             \/ ResponsesFor(i) = {} /\ WriteFailedAt(i)
        /\ Cardinality(ResponsesFor(i)) <= 1
        /\ \A k \in ResponsesFor(i) : srv.out[k].msg.jid = srv.read[i].jid

\* C22 witness: two requests with different identifiers have been answered, each once and
\* with its own identifier, one after its handler failed and one after it succeeded.
C22_Witness ==
    /\ Len(srv.read) = 2 /\ Len(srv.out) = 2
    /\ IsRequest(1) /\ IsRequest(2) /\ HasID(1) /\ HasID(2)
    /\ srv.read[1].jid # srv.read[2].jid
    /\ srv.out[1].for = 1 /\ srv.out[1].msg.jid = srv.read[1].jid
    /\ srv.out[2].for = 2 /\ srv.out[2].msg.jid = srv.read[2].jid
    /\ srv.out[1].msg.error.code = ErrCodeInternalError
    /\ srv.out[2].msg.result = HandlerResult

\* C23: no response is written for a notification, a request without an identifier.
C23_NoResponseForNotification ==
    \A i \in Positions : (IsRequest(i) /\ ~HasID(i)) => ResponsesFor(i) = {}

\* the request at position i names a method other than initialize that has no handler
Unregistered(i) ==
    /\ IsRequest(i)
    /\ srv.read[i].method # "initialize"
    /\ srv.read[i].method \notin srv.handlers

\* C24: a request for a method other than initialize without a registered handler is
\* answered with an error response of code -32601 that carries the request's identifier
\* and no result, and no handler is called for it.
C24_MethodNotFound ==
    \A i \in Positions :
      Unregistered(i) =>
        /\ \A k \in 1..Len(srv.calls) : srv.calls[k].for # i
        /\ (i = Len(srv.read) /\ srv.pc = "send") =>
             /\ srv.resp.error.code = ErrCodeMethodNotFound
             /\ srv.resp.id = DecodeID(srv.read[i].jid)
        /\ Handled(i) => (Cardinality(ResponsesFor(i)) = 1 \/ WriteFailedAt(i))
        /\ \A k \in ResponsesFor(i) :
             /\ srv.out[k].msg.error.code = ErrCodeMethodNotFound
             /\ srv.out[k].msg.result = NoResultJSON
             /\ srv.out[k].msg.jid = srv.read[i].jid

\* C24 witness: a request with an identifier for a method nobody registered has been
\* answered with the method-not-found error under its identifier.
C24_Witness ==
    \E i \in Positions :
      /\ Unregistered(i) /\ HasID(i) /\ srv.read[i].method = "nosuch"
      /\ \E k \in ResponsesFor(i) :
           /\ srv.out[k].msg.error.code = ErrCodeMethodNotFound
           /\ srv.out[k].msg.jid = srv.read[i].jid

\* C25: when a registered handler returns an error the response is an internal error
\* (code -32603) with the handler's message and the request's identifier, and Serve goes
\* on: it leaves its loop only on a cancelled context, at the end of the stream or on a
\* failed write, and after a written response it is back at the top of the loop.
C25_HandlerErrorKeepsServing ==
    /\ [](\A c \in 1..Len(srv.calls) :
            srv.calls[c].err # "nil" =>
              LET i == srv.calls[c].for IN
              /\ Handled(i) => (Cardinality(ResponsesFor(i)) = 1 \/ WriteFailedAt(i))
              /\ \A k \in ResponsesFor(i) :
                   /\ srv.out[k].msg.error =
                        NewJSONRPCError(ErrCodeInternalError, srv.calls[c].err)
                   /\ srv.out[k].msg.jid = srv.read[i].jid)
    /\ [](/\ srv.pc = "ret_ctx" => srv.ctx
          /\ srv.pc = "ret_eof" => (srv.in = <<>> /\ ~srv.decErr)
          /\ srv.pc = "ret_err" => ~srv.wopen)
    /\ [][/\ (srv.pc = "handle" /\ srv'.pc # "handle") => srv'.pc = "send"
          /\ (srv.pc = "send" /\ srv'.pc # "send")
               => (srv'.pc = "top" \/ (srv'.pc = "ret_err" /\ ~srv.wopen))]_vars

\* C25 witness: the handler of the first request failed, its internal-error response was
\* written, and the request after it has been dispatched to its handler and answered.
C25_Witness ==
    /\ Len(srv.calls) = 2 /\ Len(srv.out) = 2
    /\ srv.calls[1].for = 1 /\ srv.calls[1].err = "skill execution failed"
    /\ srv.out[1].msg.error = NewJSONRPCError(ErrCodeInternalError, "skill execution failed")
    /\ srv.calls[2].for = 2 /\ srv.calls[2].err = "nil"
    /\ srv.out[2].for = 2 /\ srv.out[2].msg.result = HandlerResult

\* C26: an initialize request is answered by the handshake and never by a registered
\* handler, also when one is registered under the name initialize; whatever protocol
\* version it asks for, the response is a success that carries the server's capabilities,
\* name and version, and it fails only when its parameters cannot be decoded.
C26_InitializeIntercepted ==
    \A i \in Positions :
      (IsRequest(i) /\ srv.read[i].method = "initialize") =>
        /\ \A k \in 1..Len(srv.calls) : srv.calls[k].for # i
        /\ Handled(i) => (Cardinality(ResponsesFor(i)) = 1 \/ WriteFailedAt(i))
        /\ \A k \in ResponsesFor(i) :
             /\ srv.out[k].msg.jid = srv.read[i].jid
             /\ ParamsDecodable(srv.read[i].params) =>
                  /\ srv.out[k].msg.error = NoError
                  /\ srv.out[k].msg.result.kind = "initialize"
                  /\ srv.out[k].msg.result.capabilities = ServerCapabilities
                  /\ srv.out[k].msg.result.name = ServerName
                  /\ srv.out[k].msg.result.version = ServerVersion
             /\ ~ParamsDecodable(srv.read[i].params) =>
                  srv.out[k].msg.error.code = ErrCodeInvalidParams

\* C26 witness: a server with a handler registered under initialize has answered an
\* initialize request that asked for a version other than its own with the handshake's result.
C26_Witness ==
    /\ "initialize" \in srv.handlers
    /\ \E i \in Positions :
         /\ IsRequest(i) /\ srv.read[i].method = "initialize" /\ srv.read[i].params = "v:1.0"
         /\ \E k \in ResponsesFor(i) : srv.out[k].msg.result = InitializeResult

\* C27: for a malformed message Serve writes one parse-error response (code -32700) and
\* goes on: when a message follows the malformed one on the stream, Serve reads it, unless
\* its context is cancelled first.
C27_ParseErrorKeepsServing ==
    /\ [](\A i \in Positions :
            ~IsRequest(i) =>
              /\ Cardinality(ResponsesFor(i)) <= 1
              /\ \A k \in ResponsesFor(i) : srv.out[k].msg.error.code = ErrCodeParseError)
    /\ (Len(srv.read) = 1 /\ ~IsRequest(1) /\ srv.in # <<>>)
         ~> (Len(srv.read) > 1 \/ srv.ctx)

\* the listed resources with the URI and the MIME type
Listed(uri, mime) ==
    {k \in 1..Len(conv.resources) :
       conv.resources[k].URI = uri /\ conv.resources[k].MimeType = mime}

\* the listed documentation resources of the skill
DocumentationOf(sk) ==
    {k \in 1..Len(conv.resources) :
       /\ conv.resources[k].MimeType = TextMarkdown
       /\ Len(conv.resources[k].URI) >= Len(Prefix \o sk.Name)
       /\ SubSeq(conv.resources[k].URI, 1, Len(Prefix \o sk.Name)) = Prefix \o sk.Name}

\* the script files under the skill's scripts path
ScriptFilesOf(sk) ==
    IF sk.dir.ok THEN {i \in 1..Len(sk.dir.entries) : IsScriptFile(sk.dir.entries[i])} ELSE {}

RECURSIVE SumOver(_, _)
SumOver(f, n) == IF n = 0 THEN 0 ELSE f[n] + SumOver(f, n - 1)

\* the URI is skill://<name>/<rest> with a name that holds no separator and a rest that
\* is not empty
WellFormedSkillURI(uri) ==
    /\ Len(uri) > Len(Prefix)
    /\ SubSeq(uri, 1, Len(Prefix)) = Prefix
    /\ \E i \in (Len(Prefix) + 2)..(Len(uri) - 1) :
         /\ uri[i] = "/"
         /\ \A j \in (Len(Prefix) + 1)..(i - 1) : uri[j] # "/"

\* C21: the resources listed for the skills are one documentation resource per skill,
\* that of its descriptor file, and one resource per script file under its scripts path,
\* and nothing else; every listed URI is skill://<name>/ followed by a kind or a path.
C21_ResourcesListed ==
    conv.stage = "listed" =>
      /\ \A n \in 1..Len(conv.skills) :
           LET sk == conv.skills[n] IN
           /\ Cardinality(DocumentationOf(sk)) = 1
           /\ Cardinality(Listed(Prefix \o sk.Name \o <<"/">> \o SkillMd, TextMarkdown)) = 1
           /\ \A i \in ScriptFilesOf(sk) :
                Cardinality(Listed(Prefix \o sk.Name \o <<"/">> \o ScriptDir \o <<"/">>
                                     \o sk.dir.entries[i].name, TextShellscript)) = 1
      /\ Len(conv.resources) =
           Len(conv.skills)
             + SumOver([n \in 1..Len(conv.skills) |-> Cardinality(ScriptFilesOf(conv.skills[n]))],
                       Len(conv.skills))
      /\ \A k \in 1..Len(conv.resources) : WellFormedSkillURI(conv.resources[k].URI)

\* the channels the step has put a response into
HandedOver == {t \in Procs : chan'[t] # chan[t] /\ chan'[t] # <<>>}

C32_StopOrder ==
    /\ [](\A t \in Procs :
            /\ pc[t] = "stop_close" => ctxDone[tconn[t]]
            /\ pc[t] = "stop_join" =>
                 /\ ctxDone[tconn[t]]
                 /\ ~stdinOpen[tconn[t]] /\ ~stdoutOpen[tconn[t]]
                 /\ proc[tconn[t]] # "running")
    /\ [][\A c \in Conns : kills'[c] > kills[c] => ~stdinOpen[c]]_vars

\* the initialized notifications written to Connection c's child
Notifications(c) == {k \in 1..Len(wire[c]) : wire[c][k].method = "initialized"}

\* the goroutines that are back from the handshake Call on Connection c
BackFromHandshake(c) == {t \in Callers : tconn[t] = c /\ pc[t] \in {"r_init", "m_init"}}

C34_ServeReturns ==
    /\ [](srv.pc = "ret_eof" => (srv.in = <<>> /\ srv.eof))
    /\ [](srv.pc = "ret_ctx" => srv.ctx)
    /\ (srv.pc # "none" /\ srv.eof) ~> ~ServeRunning
    /\ (srv.pc # "none" /\ srv.ctx) ~> ~ServeRunning

\* the positions of the log at which a skill was stored under the name
StoredUnder(name) == {k \in 1..Len(reg.log) : reg.log[k].name = name}

\* the greatest position of a set of positions
Latest(ks) == CHOOSE k \in ks : \A j \in ks : j <= k

\* goroutine g is returned an error by Register in this step
RegisterFails(g) ==
    /\ reg'.op[g] = "Register" /\ reg.pc[g] = "idle" /\ reg'.pc[g] = "idle"
    /\ reg'.res[g] # reg.res[g] \/ reg'.arg[g] # reg.arg[g] \/ reg'.op[g] # reg.op[g]

\* C35: the Registry holds exactly the names that were registered with success, each with
\* the descriptor stored last under it; no step removes a name or lowers the count;
\* Register returns an error exactly for a nil skill and for a skill with an empty name,
\* and such a call leaves the Registry as it is; Get returns what is stored under the name
\* it asked for, and Count the number of names.
C35_RegistryKeepsLatest ==
    /\ [](/\ DOMAIN reg.skills = {reg.log[k].name : k \in 1..Len(reg.log)}
          /\ \A n \in DOMAIN reg.skills :
               n # "" /\ ~reg.skills[n].isNil /\ reg.skills[n] = reg.log[Latest(StoredUnder(n))])
    /\ [][/\ DOMAIN reg.skills \subseteq DOMAIN reg'.skills
          /\ Cardinality(DOMAIN reg'.skills) >= Cardinality(DOMAIN reg.skills)]_vars
    /\ [][\A g \in RegGoroutines :
            /\ RegisterFails(g) =>
                 /\ reg'.skills = reg.skills /\ reg'.log = reg.log
                 /\ reg'.res[g].err \notin {"nil", "none"}
                 /\ reg'.arg[g].isNil \/ reg'.arg[g].name = ""
            /\ (reg'.op[g] = "Register" /\ reg.pc[g] = "idle" /\ reg'.pc[g] = "lock")
                 => (~reg'.arg[g].isNil /\ reg'.arg[g].name # "")
            /\ (reg.pc[g] = "read" /\ reg'.pc[g] = "idle" /\ reg.op[g] = "Get") =>
                 IF reg.arg[g].name \in DOMAIN reg.skills
                 THEN reg'.res[g].err = "nil"
                      /\ reg'.res[g].skill = reg.log[Latest(StoredUnder(reg.arg[g].name))]
                 ELSE reg'.res[g].err = "skill not found"
            /\ (reg.pc[g] = "read" /\ reg'.pc[g] = "idle" /\ reg.op[g] = "Count") =>
                 reg'.res[g].n = Cardinality(DOMAIN reg.skills)]_vars

\* C35 witness: a name was registered twice with different descriptors and another name
\* once, the second descriptor is the one stored, a Register of a nil skill has returned
\* its error to one goroutine, and a Get of the name registered twice has returned the
\* second descriptor to the other.
C35_Witness ==
    /\ Len(reg.log) = 3
    /\ reg.log[1] = SkillPtr("a", 1) /\ reg.log[2] = SkillPtr("b", 1) /\ reg.log[3] = SkillPtr("a", 2)
    /\ reg.skills["a"] = SkillPtr("a", 2)
    /\ \E g, h \in RegGoroutines :
         /\ g # h
         /\ reg.pc[g] = "idle" /\ reg.op[g] = "Register" /\ reg.arg[g].isNil
         /\ reg.res[g].err = "cannot register nil skill"
         /\ reg.pc[h] = "idle" /\ reg.op[h] = "Get" /\ reg.res[h].skill = SkillPtr("a", 2)

\* C36: a forwarded Execute that waits for the response to its initialize request, and
\* one that waits for the response to its tools/call request, comes back to its caller,
\* whether the child answers, stays silent or has died.
C36_ForwardedExecuteTerminates ==
    /\ \A t \in Callers : (ret[t] = "r_init" /\ pc[t] = "call_wait") ~> (pc[t] = "r_ret")
    /\ \A t \in Callers :
         (ret[t] = "r_ret" /\ pc[t] = "call_wait" /\ Forwarded(tskill[t])) ~> (pc[t] = "r_ret")

\* the Connections whose Start has succeeded and on which no Stop has returned
StartedNotStopped == {c \in Conns : proc[c] # "none" /\ stopped[c] = 0}

C38_ListedURIsAreReadable ==
    (conv.stage = "read" /\ conv.kind = "resources/list")
      => conv.err \notin {"invalid skill URI", "unknown resource type"}

\* the keys that are both a top-level argument taken over as a parameter (the action
\* string, or any argument other than action and params) and a key of the nested params
Shadowed(arguments) ==
    DOMAIN NestedOf(arguments)
      \cap (DOMAIN TopLevelOf(arguments)
              \cup {k \in {"action"} : IsString(arguments, "action")})

\* C39: a key that is both at the top level of the arguments and inside the nested
\* params object has the top-level value as its parameter; so the parameter action is
\* the top-level action string whatever the nested params hold.
C39_TopLevelValueWins ==
    conv.stage = "converted" =>
      /\ \A k \in Shadowed(conv.arguments) :
           k \in DOMAIN conv.params /\ conv.params[k] = conv.arguments[k]
      /\ IsString(conv.arguments, "action") =>
           ("action" \in DOMAIN conv.params /\ conv.params["action"] = conv.arguments["action"])

\* the field begins with the text
HoldsText(field, text) == Len(field) >= Len(text) /\ SubSeq(field, 1, Len(text)) = text

\* C40: the tool result of an execution result has exactly one content block, of type
\* text, and IsError is the negation of Success; the result converted back has the same
\* Success, and it holds the block's text in Output, with Error empty, when successful,
\* and in Error, with Output empty, when not.
C40_ResultRoundTrip ==
    /\ conv.stage \in {"tool", "back"} =>
         /\ Len(conv.tool.Content) = 1
         /\ conv.tool.Content[1].Type = "text"
         /\ conv.tool.IsError = ~conv.result.Success
    /\ conv.stage = "back" =>
         /\ conv.back.Success = conv.result.Success
         /\ IF conv.result.Success
            THEN HoldsText(conv.back.Output, conv.tool.Content[1].Text) /\ conv.back.Error = <<>>
            ELSE HoldsText(conv.back.Error, conv.tool.Content[1].Text) /\ conv.back.Output = <<>>

\* C40 witness: a failed result with an error text and an exit code has been converted
\* and converted back, and its text is in Error.
C40_Witness ==
    /\ conv.stage = "back"
    /\ ~conv.result.Success /\ conv.result.Error = <<"boom">> /\ conv.result.ExitCode = 1
    /\ conv.tool.IsError
    /\ ~conv.back.Success /\ conv.back.Error = <<"Error: ", "boom", "\n">>

====
